---- MODULE Spec2Model ----
(***************************************************************************)
(* A model of the Index class of amanuensis (src/modules/components.tsx,   *)
(* lines 365-1198): the project registry, the per-project phrase indices,  *)
(* the note cache and the chrome.storage.local key-value store behind      *)
(* them.  Every public method of Index is one action; a method runs to     *)
(* its promise's settlement (or to the point where it hangs) within the    *)
(* action, store calls included.                                           *)
(*                                                                         *)
(* Representation                                                          *)
(*   strings that the code takes apart (phrases, project names) are        *)
(*     sequences of one-character strings;                                 *)
(*   a JavaScript Map is a function; a plain object used as an ordered     *)
(*     dictionary (NoteRecord.relations) is a sequence of <<key, value>>;  *)
(*   composite store/cache keys are the strings "<projectPk>:<notePk>";    *)
(*   JavaScript undefined / null are the records Undefined / Null.         *)
(***************************************************************************)
EXTENDS Integers, Sequences, FiniteSets, TLC

----------------------------------------------------------------------------
(* Bounds of the model *)

\* largest project primary key saveProject may hand out
MaxProjectPk == 1
\* largest note primary key add may hand out
MaxNotePk == 1
\* number of calls made on the index in one behaviour
MaxOps == 3
\* length of the longest phrase normalize is tried on
MaxPhraseLen == 3

----------------------------------------------------------------------------
(* JavaScript values *)

Undefined == [undef |-> TRUE]
Null == [null |-> TRUE]

IsUndefined(v) == DOMAIN v = {"undef"}
IsNull(v) == DOMAIN v = {"null"}
\* x == null / x != null of JavaScript
IsNullish(v) == IsUndefined(v) \/ IsNull(v)

\* a string value as it comes out of reverseRelation: [str |-> s]
Str(s) == [str |-> s]
\* truthiness of a value that is a string, null or undefined
Truthy(v) == ~IsNullish(v) /\ v.str # ""

\* the range of a sequence
Range(s) == {s[i] : i \in DOMAIN s}

\* Map.has
MapHas(m, k) == k \in DOMAIN m
\* Map.get, for maps whose values are records
MapGet(m, k) == IF k \in DOMAIN m THEN m[k] ELSE Undefined
\* Map.set
MapSet(m, k, v) == [x \in DOMAIN m \cup {k} |-> IF x = k THEN v ELSE m[x]]
\* Map.delete
MapDelete(m, k) == [x \in DOMAIN m \ {k} |-> m[x]]
\* new Map()
EmptyMap == << >>

\* `${p}:${n}` for two numbers
Key(p, n) == ToString(p) \o ":" \o ToString(n)
\* projectInfo.pk.toString()
PkKey(p) == ToString(p)

----------------------------------------------------------------------------
(* Characters and the normalizers *)

Space == " "
IsSpaceChar(c) == c = Space

\* String.prototype.toLowerCase on one character of the alphabet in use
LowerChar(c) ==
    CASE c = "A" -> "a"
      [] c = "C" -> "c"
      [] c = "T" -> "t"
      [] c = "U" -> "u"
      [] c = "Ü" -> "ü"
      [] OTHER -> c

\* s.normalize('NFD').replace(/[U+0300-U+036F]/g, "") on one character
StripChar(c) ==
    CASE c = "ü" -> "u"
      [] c = "Ü" -> "U"
      [] c = "ä" -> "a"
      [] c = "ö" -> "o"
      [] OTHER -> c

\* the characters /[^\p{L}\p{N} _'-]+/ug removes
IsRemovedChar(c) == c \in {"!", "?", ".", ","}

RECURSIVE DropLeadingSpace(_)
DropLeadingSpace(s) ==
    IF s # << >> /\ IsSpaceChar(Head(s)) THEN DropLeadingSpace(Tail(s)) ELSE s

RECURSIVE DropTrailingSpace(_)
DropTrailingSpace(s) ==
    IF s # << >> /\ IsSpaceChar(s[Len(s)])
    THEN DropTrailingSpace(SubSeq(s, 1, Len(s) - 1))
    ELSE s

\* s.replace(/^\s+|\s+$/g, '')
Trim(s) == DropTrailingSpace(DropLeadingSpace(s))

\* s.replace(/\s+/g, ' ')
RECURSIVE CollapseAll(_)
CollapseAll(s) ==
    IF s = << >> THEN << >>
    ELSE IF IsSpaceChar(Head(s))
         THEN <<Space>> \o CollapseAll(DropLeadingSpace(s))
         ELSE <<Head(s)>> \o CollapseAll(Tail(s))

\* s.replace(/\s+/, ' ') : without the g flag only the first run is replaced
RECURSIVE CollapseFirst(_)
CollapseFirst(s) ==
    IF s = << >> THEN << >>
    ELSE IF IsSpaceChar(Head(s))
         THEN <<Space>> \o DropLeadingSpace(s)
         ELSE <<Head(s)>> \o CollapseFirst(Tail(s))

\* s.toLowerCase()
LowerCase(s) == [i \in DOMAIN s |-> LowerChar(s[i])]

stripDiacrics(s) == [i \in DOMAIN s |-> StripChar(s[i])]

RemoveNonWord(s) == SelectSeq(s, LAMBDA c : ~IsRemovedChar(c))

\* .replace(/ß/g,'ss').replace(/ä/g,'ae').replace(/ö/g,'oe').replace(/ü/g,'ue')
GermanChar(c) ==
    CASE c = "ß" -> <<"s", "s">>
      [] c = "ä" -> <<"a", "e">>
      [] c = "ö" -> <<"o", "e">>
      [] c = "ü" -> <<"u", "e">>
      [] OTHER -> <<c>>

RECURSIVE GermanReplace(_)
GermanReplace(s) ==
    IF s = << >> THEN << >> ELSE GermanChar(Head(s)) \o GermanReplace(Tail(s))

\* normalizers[""].code
DefaultNormalizerCode(phrase) ==
    LowerCase(RemoveNonWord(stripDiacrics(CollapseAll(Trim(phrase)))))

\* a German normalizer without the replacements of the sharp s and the umlauts
GermanNormalizerCodeStripping(phrase) ==
    RemoveNonWord(stripDiacrics(LowerCase(CollapseAll(Trim(phrase)))))

\* normalizers["German"].code
GermanNormalizerCode(phrase) ==
    RemoveNonWord(stripDiacrics(GermanReplace(LowerCase(CollapseAll(Trim(phrase))))))

\* normalizers[normalizer || ""].code(phrase)
NormalizerCode(normalizer, phrase) ==
    IF normalizer = "German" THEN GermanNormalizerCode(phrase)
    ELSE DefaultNormalizerCode(phrase)

----------------------------------------------------------------------------
(* Records of the program *)

SeeAlso == "see also"

\* Index.makeDefaultProject
makeDefaultProject ==
    [pk |-> 0,
     name |-> << >>,
     description |-> "A project for notes that have no project.",
     normalizer |-> "",
     relations |-> << <<SeeAlso, SeeAlso>> >>]

\* a NoteRecord
NoteRecord(starred, tags, relations) ==
    [starred |-> starred, tags |-> tags, citations |-> << >>, relations |-> relations]

\* what chrome.storage.local.get hands to its callback for one requested key:
\* an object that holds the key when the key is stored, an empty object else
FoundObject(key, present, note) ==
    [foundKey |-> key, present |-> present, inner |-> note]

\* v has a property "relations" (v is a NoteRecord)
HasRelations(v) == "relations" \in DOMAIN v
\* if (v) for a value of the cache
TruthyObject(v) == ~IsNullish(v)

\* an object used as ordered dictionary: a sequence of <<key, value>>
ObjHas(o, k) == \E i \in DOMAIN o : o[i][1] = k
ObjIndex(o, k) == CHOOSE i \in DOMAIN o : o[i][1] = k
\* o[k] || []
ObjGetOrEmpty(o, k) == IF ObjHas(o, k) THEN o[ObjIndex(o, k)][2] ELSE << >>
\* o[k] = v
ObjSet(o, k, v) ==
    IF ObjHas(o, k)
    THEN [i \in DOMAIN o |-> IF o[i][1] = k THEN <<k, v>> ELSE o[i]]
    ELSE Append(o, <<k, v>>)
\* delete o[k]
ObjDelete(o, k) == SelectSeq(o, LAMBDA e : e[1] # k)

\* the ways a ProjectIdentifier is written: a number, a string or a ProjectInfo
PNum(n) == [t |-> "number", n |-> n, s |-> << >>, o |-> Null]
PStr(s) == [t |-> "string", n |-> 0, s |-> s, o |-> Null]
PObj(o) == [t |-> IF IsUndefined(o) THEN "undefined" ELSE "object", n |-> 0, s |-> << >>, o |-> o]

----------------------------------------------------------------------------
(* The state: the fields of Index and the store behind it *)

VARIABLES
    projects,             \* Index.projects : name -> ProjectInfo
    reverseProjectIndex,  \* Index.reverseProjectIndex : pk -> name
    projectIndices,       \* Index.projectIndices : pk -> (normalized phrase -> note pk)
    currentProject,       \* Index.currentProject
    tags,                 \* Index.tags
    cache,                \* Index.cache : composite key -> NoteRecord
    store,                \* chrome.storage.local : key -> value
    last,                 \* the last call made on the index, how it settled, its store calls
    nops,                 \* the number of calls made so far
    promise,              \* the call whose promise is being followed from its start
    allResolved,          \* every call made so far resolved
    storeFailed,          \* a store call of some call made so far failed
    inFlight,             \* the calls started together, each with the store call it waits for
    storeQueue,           \* the calls whose store call the store has not served, in issue order
    tab,                  \* App.state.tab
    history,              \* App.state.history : Visit[]
    historyIndex          \* App.state.historyIndex

vars == <<projects, reverseProjectIndex, projectIndices, currentProject, tags, cache, store,
          last, nops, promise, allResolved, storeFailed, inFlight, storeQueue,
          tab, history, historyIndex>>

\* the state of the calls in flight together
raceVars == <<inFlight, storeQueue>>

\* the state of the App component
appVars == <<tab, history, historyIndex>>

\* the index and the store as one value
Mem ==
    [projects |-> projects,
     reverseProjectIndex |-> reverseProjectIndex,
     projectIndices |-> projectIndices,
     currentProject |-> currentProject,
     tags |-> tags,
     cache |-> cache,
     store |-> store]

\* the promise of one call: the state it leaves, how it settled and the store calls it made
Outcome(m, status, value, calls) ==
    [m |-> m, status |-> status, value |-> value, calls |-> calls]

\* one call to chrome.storage.local
StoreCall(op, keys) == [op |-> op, keys |-> keys]

\* chrome.runtime.lastError as a rejection value
StoreError == [err |-> "lastError"]
\* an exception thrown by the runtime (TypeError, Error("unreachable"))
Thrown == [err |-> "exception"]
\* a rejection with a message built from text and the values named in it
Message(text, about) == [err |-> text, about |-> about]
NoValue == [none |-> TRUE]

----------------------------------------------------------------------------
(* Project registry *)

\* Index.defaultProject
defaultProject(m) == <<<< >>, MapGet(m.projects, << >>)>>

\* Index.findProject; a name r passes `if (r)` when it is not the empty string
findProject(m, project) ==
    CASE project.t = "number" ->
           IF MapHas(m.reverseProjectIndex, project.n)
                /\ m.reverseProjectIndex[project.n] # << >>
           THEN LET r == m.reverseProjectIndex[project.n] IN
                IF MapHas(m.projects, r) THEN <<r, m.projects[r]>> ELSE defaultProject(m)
           ELSE defaultProject(m)
      [] project.t = "string" ->
           IF MapHas(m.projects, project.s)
           THEN <<project.s, m.projects[project.s]>>
           ELSE defaultProject(m)
      [] project.t = "object" ->
           IF ~IsNull(project.o)
           THEN IF MapHas(m.reverseProjectIndex, project.o.pk)
                     /\ m.reverseProjectIndex[project.o.pk] # << >>
                THEN <<m.reverseProjectIndex[project.o.pk], project.o>>
                ELSE defaultProject(m)
           ELSE defaultProject(m)

\* findProject throws Error("unreachable") when typeof project is 'undefined'
findProjectThrows(project) == project.t = "undefined"

\* the decimal digits of i, the property name for...in yields for array index i
RECURSIVE IndexName(_)
IndexName(i) ==
    IF i < 10 THEN <<ToString(i)>> ELSE IndexName(i \div 10) \o <<ToString(i % 10)>>

\* s[k] of a JavaScript string: the character, or undefined past the end
CharAt(s, k) == IF k + 1 <= Len(s) THEN Str(s[k + 1]) ELSE Undefined

\* Index.reverseRelation: `for (const pair in projectInfo.relations)` runs over
\* the index names "0", "1", ... of the array, so pair[0] and pair[1] are
\* characters of the index name
RECURSIVE reverseRelationFrom(_, _, _)
reverseRelationFrom(relations, i, relation) ==
    IF i >= Len(relations) THEN Null
    ELSE LET pair == IndexName(i) IN
         IF CharAt(pair, 0) = Str(relation) THEN CharAt(pair, 1)
         ELSE IF CharAt(pair, 1) = Str(relation) THEN CharAt(pair, 0)
         ELSE reverseRelationFrom(relations, i + 1, relation)

\* a reverseRelation that takes every relation name for its own reverse
reverseRelationSymmetric(projectInfo, relation) == Str(relation)

reverseRelation(projectInfo, relation) ==
    reverseRelationFrom(projectInfo.relations, 0, relation)

\* Index.normalize: an object is taken as the ProjectInfo, anything else goes
\* through findProject (which throws for undefined)
normalizeThrows(project) == findProjectThrows(project)

normalize(m, phrase, project) ==
    LET r == IF project.t = "object" THEN project.o ELSE findProject(m, project)[2]
        normalizer == IF TruthyObject(r) THEN r.normalizer ELSE ""
    IN NormalizerCode(normalizer, phrase)

----------------------------------------------------------------------------
(* Index.add *)

\* the primary key add gives a phrase that is new to the index
NewNotePk(projectIndex) ==
    IF DOMAIN projectIndex = {} THEN 0
    ELSE 1 + CHOOSE v \in Range(projectIndex) : \A w \in Range(projectIndex) : w <= v

\* the inner loops of add (lines 736-755) for the pairs of one relation:
\* acc holds the cache, the keys queued in storable and whether a TypeError was thrown
RECURSIVE AddPairs(_, _, _, _)
AddPairs(acc, keyPair, reversedRelation, pairs) ==
    IF pairs = << >> \/ acc.threw THEN acc
    ELSE LET pair == Head(pairs)
             otherKey == Key(pair[1], pair[2])
             other == MapGet(acc.cache, otherKey)
         IN IF ~TruthyObject(other)
            THEN AddPairs(acc, keyPair, reversedRelation, Tail(pairs))
            ELSE IF ~HasRelations(other)
            THEN [acc EXCEPT !.threw = TRUE]   \* Object.entries(undefined)
            ELSE IF /\ ObjHas(other.relations, reversedRelation)
                    /\ keyPair \notin Range(ObjGetOrEmpty(other.relations, reversedRelation))
            THEN LET pairs2 == Append(ObjGetOrEmpty(other.relations, reversedRelation), keyPair)
                     other2 == [other EXCEPT !.relations = ObjSet(@, reversedRelation, pairs2)]
                 IN AddPairs([acc EXCEPT !.cache = MapSet(@, otherKey, other2),
                                         !.touched = @ \cup {otherKey}],
                             keyPair, reversedRelation, Tail(pairs))
            ELSE AddPairs(acc, keyPair, reversedRelation, Tail(pairs))

\* the loop of add over Object.entries(data.relations) (lines 734-756)
RECURSIVE AddRelations(_, _, _, _)
AddRelations(acc, keyPair, projectInfo, entries) ==
    IF entries = << >> \/ acc.threw THEN acc
    ELSE LET relation == Head(entries)[1]
             pairs == Head(entries)[2]
             rr == reverseRelation(projectInfo, relation)
             reversedRelation == IF Truthy(rr) THEN rr.str ELSE ""
         IN AddRelations(AddPairs(acc, keyPair, reversedRelation, pairs),
                         keyPair, projectInfo, Tail(entries))

\* the note key add({phrase, project}) works on, as <<project pk, note pk>>
AddKeyPair(m, phrase, project) ==
    LET projectInfo == findProject(m, PNum(project))[2]
        key == normalize(m, phrase, PObj(projectInfo))
        projectIndex == IF MapHas(m.projectIndices, projectInfo.pk)
                        THEN m.projectIndices[projectInfo.pk] ELSE EmptyMap
    IN <<projectInfo.pk,
         IF MapHas(projectIndex, key) THEN projectIndex[key] ELSE NewNotePk(projectIndex)>>

\* the tag set made of the tags of data alone
AddTagsOfDataOnly(m, data) == Range(data.tags)

\* this.tags after the loop of lines 722-724
AddTags(m, data) == m.tags \cup Range(data.tags)

\* Index.add; fail = 1 makes the store set fail
add(m, phrase, project, data, fail) ==
    LET projectInfo == findProject(m, PNum(project))[2] IN
    IF normalizeThrows(PObj(projectInfo)) THEN Outcome(m, "rejected", Thrown, << >>)
    ELSE
    LET key == normalize(m, phrase, PObj(projectInfo))
        known == MapHas(m.projectIndices, projectInfo.pk)
        projectIndex == IF known THEN m.projectIndices[projectInfo.pk] ELSE EmptyMap
        isNew == ~MapHas(projectIndex, key)
        keyPair == AddKeyPair(m, phrase, project)
        projectIndex2 == IF isNew THEN MapSet(projectIndex, key, keyPair[2]) ELSE projectIndex
        ownKey == Key(keyPair[1], keyPair[2])
        tags2 == AddTags(m, data)
        mirrored == AddRelations([cache |-> MapSet(m.cache, ownKey, data),
                                  touched |-> {}, threw |-> FALSE],
                                 keyPair, projectInfo, data.relations)
        m2 == [m EXCEPT !.projectIndices =
                            IF known THEN MapSet(@, projectInfo.pk, projectIndex2) ELSE @,
                        !.cache = mirrored.cache,
                        !.tags = tags2]
        keys == (IF isNew THEN {PkKey(projectInfo.pk)} ELSE {})
                  \cup (IF tags2 # m.tags THEN {"tags"} ELSE {})
                  \cup mirrored.touched \cup {ownKey}
        storable == [k \in keys |->
                        IF k = "tags" THEN tags2
                        ELSE IF k = PkKey(projectInfo.pk) THEN projectIndex2
                        ELSE m2.cache[k]]
    IN IF mirrored.threw THEN Outcome(m2, "rejected", Thrown, << >>)
       ELSE IF fail = 1
       THEN Outcome(m2, "rejected", StoreError, <<StoreCall("set", keys)>>)
       ELSE Outcome([m2 EXCEPT !.store = storable @@ @], "resolved", NoValue,
                    <<StoreCall("set", keys)>>)

----------------------------------------------------------------------------
(* Index.find *)

\* the elements of a finite set of numbers in increasing order: the order in
\* which a Map whose keys were inserted in increasing order is iterated
RECURSIVE Ascending(_)
Ascending(S) ==
    IF S = {} THEN << >>
    ELSE LET least == CHOOSE x \in S : \A y \in S : x <= y
         IN <<least>> \o Ascending(S \ {least})

\* Index.allProjects
allProjects(m) == Ascending(DOMAIN m.projectIndices)

\* the entries of a phrase index in the order of their note keys
IndexEntries(index) ==
    LET byPk == [i \in Range(index) |-> CHOOSE k \in DOMAIN index : index[k] = i]
        pks == Ascending(Range(index))
    IN [j \in DOMAIN pks |-> <<byPk[pks[j]], pks[j]>>]

\* Index.projectIndex: [threw, found, i]; it throws when findProject gives no
\* ProjectInfo or when the project has no phrase index
projectIndex(m, phrase, project) ==
    LET projectInfo == findProject(m, project)[2] IN
    IF IsUndefined(projectInfo) \/ ~MapHas(m.projectIndices, projectInfo.pk)
    THEN [threw |-> TRUE, found |-> FALSE, i |-> 0]
    ELSE LET idx == m.projectIndices[projectInfo.pk]
             key == normalize(m, phrase, PObj(projectInfo))
         IN IF MapHas(idx, key)
            THEN [threw |-> FALSE, found |-> TRUE, i |-> idx[key]]
            ELSE [threw |-> FALSE, found |-> FALSE, i |-> 0]

\* deepClone(note) of ./clone: a copy equal to the note
deepClone(note) == note

\* a query {type: "lookup", phrase, project?}; project is << >> or <<pk>>
Lookup(phrase, project) == [type |-> "lookup", phrase |-> phrase, project |-> project]

\* the cache search of a lookup (lines 501-509): from the last key to the first
RECURSIVE LookupCacheHits(_, _, _)
LookupCacheHits(m, keys, i) ==
    IF i = 0 THEN << >>
    ELSE LET note == MapGet(m.cache, Key(keys[i][1], keys[i][2])) IN
         (IF ~IsNullish(note) THEN << <<keys[i][1], note>> >> ELSE << >>)
             \o LookupCacheHits(m, keys, i - 1)

FindResponse(rv) ==
    IF Len(rv) > 1 THEN [state |-> "ambiguous", matches |-> rv]
    ELSE [state |-> "found", matches |-> rv]

NoneResponse == [state |-> "none", matches |-> << >>]

\* the keys of a lookup (lines 483-499): <<project pk, note pk>> for every
\* project of the list whose phrase index holds the phrase
LookupKeys(projectList, looked) ==
    LET hit == SelectSeq([j \in DOMAIN projectList |-> j], LAMBDA j : looked[j].found)
    IN [j \in DOMAIN hit |-> <<projectList[hit[j]], looked[hit[j]].i>>]

\* the number of fetched notes before the first one on which deepClone throws
FetchedUpTo(m, rest, cloneThrows) ==
    LET missing(j) == ~MapHas(m.store, Key(rest[j][1], rest[j][2])) IN
    IF cloneThrows /\ \E j \in DOMAIN rest : missing(j)
    THEN (CHOOSE j \in DOMAIN rest : missing(j) /\ \A h \in 1..(j - 1) : ~missing(h)) - 1
    ELSE Len(rest)

\* the store get of a lookup and its callback (lines 510-529) for the keys
\* rest that the cache does not hold
findLookupFetched(m, cached, rest, upTo, fail) ==
    LET restKey(j) == Key(rest[j][1], rest[j][2])
        fetched == [j \in DOMAIN rest |-> <<rest[j][1], MapGet(m.store, restKey(j))>>]
        cache2 == [k \in DOMAIN m.cache \cup {restKey(j) : j \in 1..upTo} |->
                      IF \E j \in 1..upTo : k = restKey(j)
                      THEN deepClone(MapGet(m.store, k))
                      ELSE m.cache[k]]
        getCall == <<StoreCall("get", {restKey(j) : j \in DOMAIN rest})>>
    IN IF fail = 1 THEN Outcome(m, "rejected", StoreError, getCall)
       ELSE IF upTo < Len(rest)
       THEN Outcome([m EXCEPT !.cache = cache2], "pending", NoValue, getCall)
       ELSE Outcome([m EXCEPT !.cache = cache2], "resolved",
                    FindResponse(cached \o fetched), getCall)

\* the cache search of a lookup and what follows it (lines 500-531)
findLookupKeys(m, keys, cached, rest, fail, cloneThrows) ==
    IF keys = << >> THEN Outcome(m, "resolved", NoneResponse, << >>)
    ELSE IF rest = << >> THEN Outcome(m, "resolved", FindResponse(cached), << >>)
    ELSE findLookupFetched(m, cached, rest, FetchedUpTo(m, rest, cloneThrows), fail)

\* a lookup once projectIndex has been asked for every project of the list
findLookupIndexed(m, keys, threw, fail, cloneThrows) ==
    IF threw THEN Outcome(m, "rejected", Thrown, << >>)
    ELSE findLookupKeys(m, keys, LookupCacheHits(m, keys, Len(keys)),
                        SelectSeq(keys, LAMBDA k : IsNullish(MapGet(m.cache, Key(k[1], k[2])))),
                        fail, cloneThrows)

findLookupIn(m, projectList, looked, fail, cloneThrows) ==
    findLookupIndexed(m, LookupKeys(projectList, looked),
                      \E j \in DOMAIN looked : looked[j].threw, fail, cloneThrows)

findLookupOver(m, query, projectList, fail, cloneThrows) ==
    findLookupIn(m, projectList,
                 [j \in DOMAIN projectList |->
                     projectIndex(m, query.phrase, PNum(projectList[j]))],
                 fail, cloneThrows)

\* find for type "lookup" (lines 479-531); fail = 1 makes the store get fail,
\* cloneThrows says whether deepClone throws when handed undefined
findLookup(m, query, fail, cloneThrows) ==
    findLookupOver(m, query,
                   IF query.project = << >> THEN allProjects(m) ELSE query.project,
                   fail, cloneThrows)

\* a query {type: "ad hoc", ...}: hasPhrase, hasProject say whether the field is
\* given, strictness and starred are "none" when they are not; url, before and
\* after are never given
AdHoc(hasPhrase, phrase, strictness, hasProject, project, starred, tagRequired, tagForbidden) ==
    [type |-> "ad hoc", hasPhrase |-> hasPhrase, phrase |-> phrase,
     strictness |-> strictness, hasProject |-> hasProject, project |-> project,
     starred |-> starred, tagRequired |-> tagRequired, tagForbidden |-> tagForbidden]

\* normed.indexOf(norm) != -1
Contains(normed, norm) ==
    \E i \in 0..(Len(normed) - Len(norm)) : SubSeq(normed, i + 1, i + Len(norm)) = norm

\* the RegExp of line 552 tested on normed: the characters of key, escaped,
\* joined by ".*?" and not anchored
RECURSIVE FuzzyTest(_, _)
FuzzyTest(key, normed) ==
    IF key = << >> THEN TRUE
    ELSE IF normed = << >> THEN FALSE
    ELSE IF Head(key) = Head(normed) THEN FuzzyTest(Tail(key), Tail(normed))
    ELSE FuzzyTest(key, Tail(normed))

\* Number.parseInt(key.split(":")[0])
KeyProject(key) ==
    CHOOSE p \in 0..(MaxProjectPk + 1) : \E n \in 0..(MaxNotePk + 1) : key = Key(p, n)

\* candidates.filter without the test of tagForbidden
AdHocFilterRequiredOnly(note, query) ==
    IF query.starred = "none" THEN "drop"
    ELSE LET noteStarred == IF "starred" \in DOMAIN note THEN note.starred ELSE FALSE IN
         IF query.starred = "true" /\ ~noteStarred THEN "drop"
         ELSE IF query.starred = "false" /\ noteStarred THEN "drop"
         ELSE IF query.tagRequired # << >> /\ "tags" \notin DOMAIN note THEN "throw"
         ELSE IF \E t \in Range(query.tagRequired) : t \notin Range(note.tags) THEN "drop"
         ELSE "keep"

\* the callback of candidates.filter (lines 576-617): "keep", "drop" or "throw"
AdHocFilter(note, query) ==
    IF query.starred = "none" THEN "drop"   \* falls off the end: undefined
    ELSE LET noteStarred == IF "starred" \in DOMAIN note THEN note.starred ELSE FALSE IN
         IF query.starred = "true" /\ ~noteStarred THEN "drop"
         ELSE IF query.starred = "false" /\ noteStarred THEN "drop"
         ELSE IF (query.tagRequired # << >> \/ query.tagForbidden # << >>)
                    /\ "tags" \notin DOMAIN note
         THEN "throw"                       \* note.tags.indexOf of undefined
         ELSE IF \E t \in Range(query.tagRequired) : t \notin Range(note.tags) THEN "drop"
         ELSE IF \E t \in Range(query.tagForbidden) : t \in Range(note.tags) THEN "drop"
         ELSE "keep"

\* the test of the scan on one normalized phrase normed of a phrase index; norm
\* is the normalized phrase of the query
AdHocPasses(query, norm, normed) ==
    IF query.hasPhrase /\ query.phrase # << >>
    THEN IF query.strictness = "substring"
         THEN norm = << >> \/ Contains(normed, norm)
         ELSE FuzzyTest(norm, normed)
    ELSE TRUE

AdHocScanWith(query, pk, norm, entries) ==
    LET passing == SelectSeq(entries, LAMBDA e : AdHocPasses(query, norm, e[1]))
    IN [j \in DOMAIN passing |-> <<pk, passing[j][2]>>]

\* the candidates of one project in the scan of lines 644-669, as <<pk, note pk>>
AdHocScan(m, query, pk) ==
    AdHocScanWith(query, pk, normalize(m, query.phrase, PNum(pk)),
                  IndexEntries(IF MapHas(m.projectIndices, pk)
                               THEN m.projectIndices[pk] ELSE EmptyMap))

RECURSIVE FlattenSeq(_)
FlattenSeq(ss) == IF ss = << >> THEN << >> ELSE Head(ss) \o FlattenSeq(Tail(ss))

\* the keys of an exact ad hoc query (lines 628-640)
AdHocExactKeys(m, query, projectList) ==
    LET noteOf(pk) == m.projectIndices[pk]
        hit == SelectSeq(projectList, LAMBDA pk :
                   MapHas(noteOf(pk), normalize(m, query.phrase, PNum(pk))))
    IN [j \in DOMAIN hit |-> <<hit[j], noteOf(hit[j])[normalize(m, query.phrase, PNum(hit[j]))]>>]

\* the keys an ad hoc query asks the cache and the store for
AdHocKeys(m, query, projectList) ==
    IF query.hasPhrase /\ query.strictness = "exact"
    THEN AdHocExactKeys(m, query, projectList)
    ELSE FlattenSeq([j \in DOMAIN projectList |-> AdHocScan(m, query, projectList[j])])

\* the candidates of an ad hoc query: the cached notes, then the fetched ones
AdHocCandidates(m, hits, foundKeys) ==
    [j \in DOMAIN hits |-> <<hits[j][1], m.cache[Key(hits[j][1], hits[j][2])]>>]
    \o [j \in DOMAIN foundKeys |->
           <<KeyProject(Key(foundKeys[j][1], foundKeys[j][2])),
             m.store[Key(foundKeys[j][1], foundKeys[j][2])]>>]

\* candidates.filter and the response of an ad hoc query (lines 576-625)
findAdHocFiltered(m, toLookUp, candidates, verdict, fail) ==
    LET ix == SelectSeq([j \in DOMAIN candidates |-> j], LAMBDA j : verdict[j] = "keep")
        kept == [j \in DOMAIN ix |-> candidates[ix[j]]]
        response == IF ix = << >> THEN NoneResponse
                    ELSE IF Len(ix) = 1 THEN [state |-> "found", matches |-> kept]
                    ELSE [state |-> "ambiguous", matches |-> kept]
        filterThrows == \E j \in DOMAIN verdict : verdict[j] = "throw"
        getCall == <<StoreCall("get", {Key(toLookUp[j][1], toLookUp[j][2]) :
                                          j \in DOMAIN toLookUp})>>
    IN IF toLookUp = << >>
       THEN IF filterThrows THEN Outcome(m, "rejected", Thrown, << >>)
            ELSE Outcome(m, "resolved", response, << >>)
       ELSE IF fail = 1 THEN Outcome(m, "rejected", StoreError, getCall)
       ELSE IF filterThrows THEN Outcome(m, "pending", NoValue, getCall)
       ELSE Outcome(m, "resolved", response, getCall)

findAdHocCandidates(m, query, toLookUp, candidates, fail) ==
    findAdHocFiltered(m, toLookUp, candidates,
                      [j \in DOMAIN candidates |-> AdHocFilter(candidates[j][2], query)],
                      fail)

findAdHocLookedUp(m, query, hits, toLookUp, fail) ==
    findAdHocCandidates(m, query, toLookUp,
                        AdHocCandidates(m, hits,
                            SelectSeq(toLookUp, LAMBDA k : MapHas(m.store, Key(k[1], k[2])))),
                        fail)

\* the cache search of an ad hoc query (lines 560-575) and what follows it
findAdHocKeys(m, query, keys, fail) ==
    findAdHocLookedUp(m, query,
        SelectSeq(keys, LAMBDA k : TruthyObject(MapGet(m.cache, Key(k[1], k[2])))),
        SelectSeq(keys, LAMBDA k : ~TruthyObject(MapGet(m.cache, Key(k[1], k[2])))),
        fail)

\* line 632, projectIndices.get(pk)!.get(key), throws for a project without index
findAdHocOver(m, query, projectList, fail) ==
    IF /\ query.hasPhrase /\ query.strictness = "exact"
       /\ \E j \in DOMAIN projectList : ~MapHas(m.projectIndices, projectList[j])
    THEN Outcome(m, "rejected", Thrown, << >>)
    ELSE findAdHocKeys(m, query, AdHocKeys(m, query, projectList), fail)

\* find for type "ad hoc" (lines 532-690); Object.keys(requirements) is an
\* array and so always truthy; fail = 1 makes the store get fail
findAdHoc(m, query, fail) ==
    findAdHocOver(m, query, IF query.hasProject THEN query.project ELSE allProjects(m), fail)

\* Index.find
find(m, query, fail, cloneThrows) ==
    IF query.type = "lookup" THEN findLookup(m, query, fail, cloneThrows)
    ELSE findAdHoc(m, query, fail)

----------------------------------------------------------------------------
(* Index.deleteRelation *)

\* pairs without the key pair gone (the loops of lines 803-807 and 818-822)
WithoutPair(pairs, gone) == SelectSeq(pairs, LAMBDA q : ~(q[1] = gone[1] /\ q[2] = gone[2]))

\* o[k] = pairs if pairs.length, else delete o[k]
SetOrDelete(o, k, pairs) == IF pairs # << >> THEN ObjSet(o, k, pairs) ELSE ObjDelete(o, k)

\* `${key[0]}:${key[1]}` of line 815, where key is the normalized phrase: its
\* first two characters, "undefined" for a character the phrase does not have
PhraseCharKey(key) ==
    (IF Len(key) >= 1 THEN key[1] ELSE "undefined") \o ":"
        \o (IF Len(key) >= 2 THEN key[2] ELSE "undefined")

\* the continuation of deleteRelation (lines 794-838) on the other note;
\* sync says that no store callback has run yet, calls are the store calls made
deleteRelationContinuation(m, projectName, projectInfo, key, pk, data, relation, pair, other,
                           sync, calls, fail) ==
    LET reversedRelation == reverseRelation(projectInfo, relation)
        otherKey == Key(pair[1], pair[2])
        thrown == IF sync THEN Outcome(m, "rejected", Thrown, calls)
                  ELSE Outcome(m, "pending", NoValue, calls)
    IN IF ~Truthy(reversedRelation)
       THEN Outcome(m, "rejected",
                    Message("could not find the reversed relation for",
                            <<relation, projectName>>),
                    calls)
       ELSE IF ~HasRelations(other) THEN thrown
       ELSE
       LET pairs22 == WithoutPair(ObjGetOrEmpty(other.relations, reversedRelation.str),
                                  <<projectInfo.pk, pk>>)
           other2 == [other EXCEPT !.relations = SetOrDelete(@, reversedRelation.str, pairs22)]
           m2 == [m EXCEPT !.cache = MapSet(@, otherKey, other2)]
           thrown2 == IF sync THEN Outcome(m2, "rejected", Thrown, calls)
                      ELSE Outcome(m2, "pending", NoValue, calls)
           \* data is the same object as other when pair is the note's own key
           dataNow == IF otherKey = Key(projectInfo.pk, pk) THEN other2 ELSE data
       IN IF ~HasRelations(dataNow) THEN thrown2
          ELSE
          LET data2 == [deepClone(dataNow) EXCEPT !.relations =
                           SetOrDelete(@, relation,
                                       WithoutPair(ObjGetOrEmpty(@, relation), pair))]
              dataKey == PhraseCharKey(key)
              storable == (dataKey :> data2) @@ (otherKey :> other2)
              setCall == Append(calls, StoreCall("set", {otherKey, dataKey}))
          IN IF fail = Len(setCall)
             THEN Outcome(m2, "rejected", StoreError, setCall)
             ELSE Outcome([m2 EXCEPT !.store = storable @@ @], "resolved", NoValue, setCall)

\* Index.deleteRelation; project is a ProjectInfo, fail the number of the store
\* call that fails
deleteRelation(m, phrase, project, relation, pair, fail) ==
    LET projectName == findProject(m, PObj(project))[1]
        projectInfo == findProject(m, PObj(project))[2]
    IN
    IF normalizeThrows(PObj(projectInfo)) THEN Outcome(m, "rejected", Thrown, << >>)
    ELSE
    LET key == normalize(m, phrase, PObj(projectInfo))
        stored == MapHas(m.projectIndices, projectInfo.pk)
                     /\ MapHas(m.projectIndices[projectInfo.pk], key)
        pk == m.projectIndices[projectInfo.pk][key]
        data == MapGet(m.cache, Key(projectInfo.pk, pk))
        otherKey == Key(pair[1], pair[2])
        other == MapGet(m.cache, otherKey)
        getCall == <<StoreCall("get", {otherKey})>>
        found == FoundObject(otherKey, MapHas(m.store, otherKey), MapGet(m.store, otherKey))
    IN IF ~stored
       THEN Outcome(m, "rejected",
                    Message("the phrase is not stored in", <<phrase, projectName>>), << >>)
       ELSE IF ~TruthyObject(data)
       THEN Outcome(m, "rejected",
                    Message("the phrase was not cached; this should be unreachable code", << >>),
                    << >>)
       ELSE IF TruthyObject(other)
       THEN deleteRelationContinuation(m, projectName, projectInfo, key, pk, data, relation,
                                       pair, other, TRUE, << >>, fail)
       ELSE IF fail = 1 THEN Outcome(m, "rejected", StoreError, getCall)
       ELSE deleteRelationContinuation([m EXCEPT !.cache = MapSet(@, otherKey, found)],
                                       projectName, projectInfo, key, pk, data, relation,
                                       pair, found, FALSE, getCall, fail)

----------------------------------------------------------------------------
(* Index.removeProject *)

\* an exception is a rejection while the promise executor is still running and
\* leaves the promise pending once a store callback is running
Throw(m, sync, calls) ==
    IF sync THEN Outcome(m, "rejected", Thrown, calls)
    ELSE Outcome(m, "pending", NoValue, calls)

\* (note.relations["see also"] || []).filter(([k, v]) => k !== pk)
SeeAlsoElsewhere(note, pk) ==
    SelectSeq(ObjGetOrEmpty(note.relations, SeeAlso), LAMBDA q : q[1] # pk)

\* the loop of continuation2 (lines 998-1006) over the adjustables, each
\* <<key, cached, note>>: a cached adjustable is the cache's own object, so the
\* loop changes the cache; acc holds the cache, memoranda and whether it threw
RECURSIVE Adjust(_, _, _)
Adjust(acc, adjustables, pk) ==
    IF adjustables = << >> \/ acc.threw THEN acc
    ELSE LET key == Head(adjustables)[1]
             cached == Head(adjustables)[2]
             note == IF cached THEN acc.cache[key] ELSE Head(adjustables)[3]
         IN IF ~HasRelations(note) \/ ~ObjHas(note.relations, SeeAlso)
            THEN [acc EXCEPT !.threw = TRUE]
            ELSE LET keepers == SeeAlsoElsewhere(note, pk)
                     note2 == [note EXCEPT !.relations = SetOrDelete(@, SeeAlso, keepers)]
                 IN Adjust([acc EXCEPT !.cache = IF cached THEN MapSet(@, key, note2) ELSE @,
                                       !.memoranda = MapSet(@, key, note2)],
                           Tail(adjustables), pk)

\* the cache once the keys in found are deleted from it (lines 1025-1027)
DeleteFromCache(cache0, found) == [k \in DOMAIN cache0 \ found |-> cache0[k]]

\* continuation2 of removeProject (lines 997-1033)
removeProjectContinuation2(m, projectInfo, delenda, found, adjustables, sync, calls, fail) ==
    LET adjusted == Adjust([cache |-> m.cache, memoranda |-> EmptyMap, threw |-> FALSE],
                           adjustables, projectInfo.pk)
        m2 == [m EXCEPT !.cache = adjusted.cache]
        removeKeys == delenda \cup {PkKey(projectInfo.pk)}
        removeCall == Append(calls, StoreCall("remove", removeKeys))
        wasCurrent == m.currentProject = projectInfo.pk
        m3 == [m2 EXCEPT !.store = [k \in DOMAIN @ \ removeKeys |-> @[k]],
                         !.projects = MapDelete(@, projectInfo.name),
                         !.reverseProjectIndex = MapDelete(@, projectInfo.pk),
                         !.currentProject = IF wasCurrent THEN 0 ELSE @]
        \* the cached adjustables are written as they are when set is called
        memoranda == [k \in DOMAIN adjusted.memoranda \cup {"projects"}
                             \cup (IF wasCurrent THEN {"currentProject"} ELSE {}) |->
                         IF k = "projects" THEN m3.projects
                         ELSE IF k = "currentProject" THEN 0
                         ELSE adjusted.memoranda[k]]
        setCall == Append(removeCall, StoreCall("set", DOMAIN memoranda))
    IN IF adjusted.threw THEN Throw(m2, sync, calls)
       ELSE IF fail = Len(removeCall) THEN Outcome(m2, "rejected", StoreError, removeCall)
       ELSE IF fail = Len(setCall)
       THEN Outcome(m3, "rejected",
                    Message("all the notes have been deleted, but some changes could not be saved",
                            <<projectInfo.name, StoreError>>),
                    setCall)
       ELSE Outcome([m3 EXCEPT !.store = memoranda @@ @,
                               !.cache = DeleteFromCache(@, found)],
                    "resolved", NoValue, setCall)

\* continuation1 of removeProject (lines 993-996 and 1034-1058); notes are the
\* notes of the project, the cached ones first
removeProjectContinuation1(m, projectInfo, delenda, found, notes, sync, calls, fail) ==
    LET targets == FlattenSeq([j \in DOMAIN notes |->
                                  SeeAlsoElsewhere(notes[j], projectInfo.pk)])
        isCached(q) == TruthyObject(MapGet(m.cache, Key(q[1], q[2])))
        cachedOnes == SelectSeq(targets, isCached)
        adjustanda == SelectSeq(targets, LAMBDA q : ~isCached(q))
        adjustandaKeys == {Key(adjustanda[j][1], adjustanda[j][2]) : j \in DOMAIN adjustanda}
        \* Object.entries(found): every stored key once, in the order asked for
        fetchedKeys == SelectSeq(adjustanda, LAMBDA q : MapHas(m.store, Key(q[1], q[2])))
        firstOnly == SelectSeq([j \in DOMAIN fetchedKeys |-> j],
                               LAMBDA j : \A h \in 1..(j - 1) : fetchedKeys[h] # fetchedKeys[j])
        adjustables ==
            [j \in DOMAIN cachedOnes |->
                <<Key(cachedOnes[j][1], cachedOnes[j][2]), TRUE, NoValue>>]
            \o [j \in DOMAIN firstOnly |->
                   LET k == Key(fetchedKeys[firstOnly[j]][1], fetchedKeys[firstOnly[j]][2])
                   IN <<k, FALSE, m.store[k]>>]
        getCall == Append(calls, StoreCall("get", adjustandaKeys))
    IN IF \E j \in DOMAIN notes : ~HasRelations(notes[j]) THEN Throw(m, sync, calls)
       ELSE IF adjustanda = << >>
       THEN removeProjectContinuation2(m, projectInfo, delenda, found, adjustables,
                                       sync, calls, fail)
       ELSE IF fail = Len(getCall) THEN Outcome(m, "rejected", StoreError, getCall)
       ELSE removeProjectContinuation2(m, projectInfo, delenda, found, adjustables,
                                       FALSE, getCall, fail)

\* Index.removeProject; fail is the number of the store call that fails
removeProject(m, project, fail) ==
    LET projectInfo == findProject(m, project)[2] IN
    IF IsUndefined(projectInfo) \/ ~MapHas(m.projectIndices, projectInfo.pk)
    THEN Outcome(m, "rejected", Thrown, << >>)
    ELSE
    LET entries == IndexEntries(m.projectIndices[projectInfo.pk])
        keyOf(j) == Key(projectInfo.pk, entries[j][2])
        isCached(j) == TruthyObject(MapGet(m.cache, keyOf(j)))
        ix == [j \in DOMAIN entries |-> j]
        foundIx == SelectSeq(ix, isCached)
        missingIx == SelectSeq(ix, LAMBDA j : ~isCached(j))
        found == {keyOf(foundIx[j]) : j \in DOMAIN foundIx}
        missing == {keyOf(missingIx[j]) : j \in DOMAIN missingIx}
        delenda == found \cup missing
        fetchedIx == SelectSeq(missingIx, LAMBDA j : MapHas(m.store, keyOf(j)))
        notes == [j \in DOMAIN foundIx |-> m.cache[keyOf(foundIx[j])]]
                 \o [j \in DOMAIN fetchedIx |-> m.store[keyOf(fetchedIx[j])]]
        getCall == <<StoreCall("get", missing)>>
    IN IF missing = {}
       THEN removeProjectContinuation1(m, projectInfo, delenda, found, notes, TRUE, << >>, fail)
       ELSE IF fail = 1 THEN Outcome(m, "rejected", StoreError, getCall)
       ELSE removeProjectContinuation1(m, projectInfo, delenda, found, notes, FALSE, getCall, fail)

----------------------------------------------------------------------------
(* Index.delete *)

\* Index.delete (lines 769-779): the executor holds only a TODO comment, it
\* calls neither resolve nor reject nor the store
delete(m, phrase, project) == Outcome(m, "pending", NoValue, << >>)

----------------------------------------------------------------------------
(* Index.saveProject, setCurrentProject, clear and getIndex *)

\* a new pk that is the number of projects in the registry
NewProjectPkByCount(m) == Cardinality(DOMAIN m.projects)

\* the pk saveProject gives a project with a new name (lines 951-956)
NewProjectPk(m) ==
    LET pks == {m.projects[n].pk : n \in DOMAIN m.projects} \cup {0}
    IN 1 + CHOOSE v \in pks : \A w \in pks : w <= v

\* name.replace(/^\s+|\s+$/g, '').replace(/\s+/, ' ')
CleanName(name) == CollapseFirst(Trim(name))

\* Index.saveProject; fail = 1 makes the store set fail
saveProject(m, name, description, normalizer, relations, fail) ==
    LET name2 == CleanName(name)
        known == MapHas(m.projects, name2)
        pk == IF known THEN m.projects[name2].pk ELSE NewProjectPk(m)
        project == [pk |-> pk, name |-> name2, description |-> description,
                    normalizer |-> normalizer, relations |-> relations]
        m2 == [m EXCEPT !.projectIndices = IF known THEN @ ELSE MapSet(@, pk, EmptyMap),
                        !.reverseProjectIndex = IF known THEN @ ELSE MapSet(@, pk, name2),
                        !.projects = MapSet(@, name2, project)]
        keys == {"projects"} \cup (IF known THEN {} ELSE {PkKey(pk)})
        storable == [k \in keys |-> IF k = "projects" THEN m2.projects ELSE EmptyMap]
        setCall == <<StoreCall("set", keys)>>
    IN IF fail = 1 THEN Outcome(m2, "rejected", StoreError, setCall)
       ELSE Outcome([m2 EXCEPT !.store = storable @@ @], "resolved", [pk |-> pk], setCall)

\* a setCurrentProject that reads the key back after writing it
setCurrentProjectReadBack(m, pk, fail) ==
    Outcome([m EXCEPT !.store = ("currentProject" :> pk) @@ @, !.currentProject = pk],
            "resolved", NoValue,
            <<StoreCall("set", {"currentProject"}), StoreCall("get", {"currentProject"})>>)

\* Index.setCurrentProject
setCurrentProject(m, pk, fail) ==
    LET setCall == <<StoreCall("set", {"currentProject"})>> IN
    IF ~MapHas(m.reverseProjectIndex, pk)
    THEN Outcome(m, "rejected", Message("is not the primary key of a known project", <<pk>>),
                 << >>)
    ELSE IF fail = 1 THEN Outcome(m, "rejected", StoreError, setCall)
    ELSE Outcome([m EXCEPT !.store = ("currentProject" :> pk) @@ @,
                           !.currentProject = pk],
                 "resolved", NoValue, setCall)

\* Index.clear; the set that restores the default project has no callback, so
\* its failure (fail = 2) goes unnoticed
clear(m, fail) ==
    LET clearCall == <<StoreCall("clear", {})>>
        registry == (<< >> :> makeDefaultProject)
    IN IF fail = 1 THEN Outcome(m, "rejected", StoreError, clearCall)
       ELSE Outcome([m EXCEPT !.cache = EmptyMap,
                              !.projectIndices = (0 :> EmptyMap),
                              !.projects = registry,
                              !.reverseProjectIndex = EmptyMap,
                              !.tags = {},
                              !.store = IF fail = 2 THEN EmptyMap ELSE ("projects" :> registry)],
                    "resolved", NoValue,
                    Append(clearCall, StoreCall("set", {"projects"})))

\* the size of the extension's local storage (line 870)
StorageQuota == 5242880

\* a memfree that does not look at the store's error
memfreeUnchecked(m, bytes, fail) ==
    Outcome(m, "resolved", [free |-> StorageQuota - bytes],
            <<StoreCall("getBytesInUse", {})>>)

\* a memfree that resolves to the bytes in use
memfreeOfBytesInUse(m, bytes, fail) ==
    IF fail = 1 THEN Outcome(m, "rejected", StoreError, <<StoreCall("getBytesInUse", {})>>)
    ELSE Outcome(m, "resolved", [free |-> bytes], <<StoreCall("getBytesInUse", {})>>)

\* Index.memfree (lines 863-873): the bytes left in the store; bytes is what
\* getBytesInUse(null) hands to its callback, fail = 1 makes the call fail
memfree(m, bytes, fail) ==
    LET call == <<StoreCall("getBytesInUse", {})>>
    IN IF fail = 1 THEN Outcome(m, "rejected", StoreError, call)
       ELSE Outcome(m, "resolved", [free |-> StorageQuota - bytes], call)

\* the Index constructor (lines 391-408) on what getIndex read; fail = 3 makes
\* the set of the default project fail, which nothing observes
Constructor(m, projects0, currentProject0, projectIndices0, tags0, calls, fail) ==
    LET bootstrap == DOMAIN projectIndices0 = {}
        projects1 == IF bootstrap THEN MapSet(projects0, << >>, makeDefaultProject)
                     ELSE projects0
        byPk(pk) == CHOOSE n \in DOMAIN projects1 : projects1[n].pk = pk
        setCall == Append(calls, StoreCall("set", {"projects"}))
    IN Outcome([projects |-> projects1,
                reverseProjectIndex |->
                    [pk \in {projects1[n].pk : n \in DOMAIN projects1} |-> byPk(pk)],
                projectIndices |-> IF bootstrap THEN (0 :> EmptyMap) ELSE projectIndices0,
                currentProject |-> currentProject0,
                tags |-> tags0,
                cache |-> EmptyMap,
                store |-> IF bootstrap /\ fail # Len(setCall)
                          THEN ("projects" :> projects1) @@ m.store ELSE m.store],
               "resolved", NoValue, IF bootstrap THEN setCall ELSE calls)

\* getIndex (lines 1136-1162): a new Index read from the store; when a get
\* fails no Index is made and the one in use stays
getIndex(m, fail) ==
    LET get1 == <<StoreCall("get", {"projects", "currentProject", "tags"})>>
        projects0 == IF MapHas(m.store, "projects") THEN m.store["projects"] ELSE EmptyMap
        currentProject0 == IF MapHas(m.store, "currentProject")
                           THEN m.store["currentProject"] ELSE 0
        tags0 == IF MapHas(m.store, "tags") THEN m.store["tags"] ELSE {}
        indices == {projects0[n].pk : n \in DOMAIN projects0}
        get2 == Append(get1, StoreCall("get", {PkKey(pk) : pk \in indices}))
        projectIndices0 == [pk \in {x \in indices : MapHas(m.store, PkKey(x))} |->
                               m.store[PkKey(pk)]]
    IN IF fail = 1 THEN Outcome(m, "rejected", StoreError, get1)
       ELSE IF fail = 2 THEN Outcome(m, "rejected", StoreError, get2)
       ELSE Constructor(m, projects0, currentProject0, projectIndices0, tags0, get2, fail)

----------------------------------------------------------------------------
(* Inputs *)

\* the phrases notes are added under
PhraseInputs == { <<"C", "a", "t", "!">>, <<"c", "a">> }

\* the phrases notes are added under in the project with the key project:
\* those, and a phrase with an umlaut where the normalizer is the German one
AddPhraseInputs(m, project) ==
    PhraseInputs
    \cup (IF \E n \in DOMAIN m.projects :
                 m.projects[n].pk = project /\ m.projects[n].normalizer = "German"
          THEN { <<"Ü", "b", "e", "r">> } ELSE {})

\* the phrases looked up
QueryPhraseInputs == PhraseInputs \cup { <<"c", "a", "t">> }

\* the projects saveProject is called with: the default project as it is, and
\* a project " A" with the German normalizer
SaveInputs ==
    { [name |-> << >>, description |-> makeDefaultProject.description,
       normalizer |-> "", relations |-> << <<SeeAlso, SeeAlso>> >>],
      [name |-> <<" ", "A">>, description |-> "[no description]",
       normalizer |-> "German",
       relations |-> << <<SeeAlso, SeeAlso>>, <<"part", "whole">> >>] }

\* the note keys relations point at
PairInputs == {<<p, 0>> : p \in 0..MaxProjectPk}

\* the notes add is called with: a plain note, a starred and tagged one, and
\* notes that have one "see also" relation to one note
DataInputs ==
    {NoteRecord(FALSE, << >>, << >>), NoteRecord(TRUE, <<"animal">>, << >>)}
    \cup {NoteRecord(FALSE, << >>, << <<SeeAlso, <<pair>> >> >>) : pair \in PairInputs}

\* the relation names deleteRelation is called with; "synonym" is declared nowhere
RelationInputs == {SeeAlso, "synonym"}

\* the project identifiers removeProject is called with
ProjectIdInputs == {PNum(n) : n \in 0..MaxProjectPk} \cup {PStr(<< >>)}

\* the queries find is called with
LookupInputs ==
    {Lookup(phrase, project) :
        phrase \in QueryPhraseInputs, project \in {<< >>} \cup {<<n>> : n \in 0..MaxProjectPk}}
    \cup {Lookup(<<"ü", "b", "e", "r">>, <<n>>) : n \in 1..MaxProjectPk}

AdHocInputs ==
    {AdHoc(TRUE, phrase, strictness, FALSE, << >>, starred, << >>, << >>) :
        phrase \in {<<"c", "a">>}, strictness \in {"exact", "substring", "none"},
        starred \in {"none", "false"}}
    \cup {AdHoc(FALSE, << >>, "none", FALSE, << >>, "true", <<"animal">>, << >>),
          AdHoc(FALSE, << >>, "none", FALSE, << >>, "false", << >>, <<"animal">>)}

\* the byte counts the store reports to memfree: nothing stored, some bytes
\* stored, the store full
BytesInputs == {0, 4096, StorageQuota}

\* which store call of an operation fails (0: none)
FailInputs == {0, 1}

----------------------------------------------------------------------------
(* The specification *)

\* what is kept of the value a promise settled with: the state of a
\* FindResponse, the pk of saveProject, the error
Brief(value) ==
    IF "state" \in DOMAIN value THEN [state |-> value.state] ELSE value

\* the state getIndex leaves on an empty store: the constructor adds the
\* default project and writes the registry
Init ==
    /\ projects = (<< >> :> makeDefaultProject)
    /\ reverseProjectIndex = (0 :> << >>)
    /\ projectIndices = (0 :> EmptyMap)
    /\ currentProject = 0
    /\ tags = {}
    /\ cache = EmptyMap
    /\ store = ("projects" :> (<< >> :> makeDefaultProject))
    /\ last = [op |-> "getIndex", status |-> "resolved", value |-> NoValue,
               calls |-> <<"get", "get", "set">>]
    /\ nops = 0
    /\ promise = [id |-> 0, state |-> "settled", op |-> "getIndex", out |-> NoValue]
    /\ allResolved = TRUE
    /\ storeFailed = FALSE
    /\ inFlight = << >>
    /\ storeQueue = << >>
    /\ tab = 0
    /\ history = << >>
    /\ historyIndex = -1

\* a behaviour makes at most MaxOps calls
MayCall == nops < MaxOps

\* a store call of the call with the outcome out failed: the failures of
\* FailInputs are failures of the first store call of a call, whose callback
\* rejects the call with the store's error
StoreCallFailed(out) == out.status = "rejected" /\ out.value = StoreError

\* the variables of the index and the store after the call op with outcome out
Apply(op, out) ==
    /\ nops' = nops + 1
    /\ projects' = out.m.projects
    /\ reverseProjectIndex' = out.m.reverseProjectIndex
    /\ projectIndices' = out.m.projectIndices
    /\ currentProject' = out.m.currentProject
    /\ tags' = out.m.tags
    /\ cache' = out.m.cache
    /\ store' = out.m.store
    /\ last' = [op |-> op, status |-> out.status, value |-> Brief(out.value),
                calls |-> [j \in DOMAIN out.calls |-> out.calls[j].op]]
    /\ allResolved' = (allResolved /\ out.status = "resolved")
    /\ storeFailed' = (storeFailed \/ StoreCallFailed(out))
    /\ UNCHANGED <<raceVars, appVars>>

\* a call that runs to its end in one step
Settle(op, out) == Apply(op, out) /\ UNCHANGED promise

\* add may be called when it hands out no note key above MaxNotePk
AddAllowed(m, phrase, project) ==
    ~normalizeThrows(PObj(findProject(m, PNum(project))[2]))
        => AddKeyPair(m, phrase, project)[2] <= MaxNotePk

Add ==
    \E project \in 0..MaxProjectPk, data \in DataInputs, fail \in FailInputs :
      \E phrase \in AddPhraseInputs(Mem, project) :
        /\ MayCall
        /\ AddAllowed(Mem, phrase, project)
        /\ Settle("add", add(Mem, phrase, project, data, fail))

Find ==
    \E query \in LookupInputs \cup AdHocInputs, fail \in FailInputs, cloneThrows \in BOOLEAN :
        /\ MayCall
        /\ Settle("find", find(Mem, query, fail, cloneThrows))

\* deleteRelation is called with a ProjectInfo of the registry
DeleteRelation ==
    \E phrase \in PhraseInputs, name \in DOMAIN projects, relation \in RelationInputs,
       pair \in PairInputs, fail \in FailInputs :
        /\ MayCall
        /\ Settle("deleteRelation",
                  deleteRelation(Mem, phrase, projects[name], relation, pair, fail))

\* saveProject may be called when it hands out no project key above MaxProjectPk
SaveAllowed(m, name) ==
    MapHas(m.projects, CleanName(name)) \/ NewProjectPk(m) <= MaxProjectPk

SaveProject ==
    \E p \in SaveInputs, fail \in FailInputs :
        /\ MayCall
        /\ SaveAllowed(Mem, p.name)
        /\ Settle("saveProject",
                  saveProject(Mem, p.name, p.description, p.normalizer, p.relations, fail))

RemoveProject ==
    \E project \in ProjectIdInputs, fail \in FailInputs :
        /\ MayCall
        /\ Settle("removeProject", removeProject(Mem, project, fail))

SetCurrentProject ==
    \E pk \in 0..MaxProjectPk, fail \in FailInputs :
        /\ MayCall
        /\ Settle("setCurrentProject", setCurrentProject(Mem, pk, fail))

Clear ==
    \E fail \in FailInputs :
        /\ MayCall
        /\ Settle("clear", clear(Mem, fail))

\* delete is called with a ProjectInfo of the registry
Delete ==
    \E phrase \in PhraseInputs, name \in DOMAIN projects :
        /\ MayCall
        /\ Settle("delete", delete(Mem, phrase, projects[name]))

MemFree ==
    \E bytes \in BytesInputs, fail \in FailInputs :
        /\ MayCall
        /\ Settle("memfree", memfree(Mem, bytes, fail))

GetIndex ==
    \E fail \in FailInputs :
        /\ MayCall
        /\ Settle("getIndex", getIndex(Mem, fail))

Next ==
    \/ Add
    \/ Find
    \/ Delete
    \/ DeleteRelation
    \/ SaveProject
    \/ RemoveProject
    \/ SetCurrentProject
    \/ Clear
    \/ MemFree
    \/ GetIndex

Spec == Init /\ [][Next]_vars

----------------------------------------------------------------------------
(* The specification in which a call and the settling of its promise are
   two steps *)

\* a call is started when no other call is in flight: its promise is followed
\* until the store has invoked its callbacks
Started(op, out) ==
    /\ promise.state # "started"
    /\ promise' = [id |-> nops + 1, state |-> "started", op |-> op, out |-> out]
    /\ UNCHANGED <<projects, reverseProjectIndex, projectIndices, currentProject, tags,
                   cache, store, last, nops, allResolved, storeFailed, raceVars, appVars>>

StartAdd ==
    \E project \in 0..MaxProjectPk, data \in DataInputs, fail \in FailInputs :
      \E phrase \in AddPhraseInputs(Mem, project) :
        /\ MayCall
        /\ AddAllowed(Mem, phrase, project)
        /\ Started("add", add(Mem, phrase, project, data, fail))

StartFind ==
    \E query \in LookupInputs \cup AdHocInputs, fail \in FailInputs, cloneThrows \in BOOLEAN :
        /\ MayCall
        /\ Started("find", find(Mem, query, fail, cloneThrows))

StartDelete ==
    \E phrase \in PhraseInputs, name \in DOMAIN projects :
        /\ MayCall
        /\ Started("delete", delete(Mem, phrase, projects[name]))

StartDeleteRelation ==
    \E phrase \in PhraseInputs, name \in DOMAIN projects, relation \in RelationInputs,
       pair \in PairInputs, fail \in FailInputs :
        /\ MayCall
        /\ Started("deleteRelation",
                   deleteRelation(Mem, phrase, projects[name], relation, pair, fail))

StartSaveProject ==
    \E p \in SaveInputs, fail \in FailInputs :
        /\ MayCall
        /\ SaveAllowed(Mem, p.name)
        /\ Started("saveProject",
                   saveProject(Mem, p.name, p.description, p.normalizer, p.relations, fail))

StartRemoveProject ==
    \E project \in ProjectIdInputs, fail \in FailInputs :
        /\ MayCall
        /\ Started("removeProject", removeProject(Mem, project, fail))

StartSetCurrentProject ==
    \E pk \in 0..MaxProjectPk, fail \in FailInputs :
        /\ MayCall
        /\ Started("setCurrentProject", setCurrentProject(Mem, pk, fail))

StartClear ==
    \E fail \in FailInputs :
        /\ MayCall
        /\ Started("clear", clear(Mem, fail))

StartMemFree ==
    \E bytes \in BytesInputs, fail \in FailInputs :
        /\ MayCall
        /\ Started("memfree", memfree(Mem, bytes, fail))

\* the executor has run and the store has invoked every callback of the call
\* in flight: the promise is settled, unless nothing called resolve or reject
Callback ==
    /\ promise.state = "started"
    /\ Apply(promise.op, promise.out)
    /\ promise' = [promise EXCEPT !.state = IF promise.out.status = "pending"
                                             THEN "unsettled" ELSE "settled",
                                  !.out = NoValue]

LiveNext ==
    \/ StartAdd
    \/ StartFind
    \/ StartDelete
    \/ StartDeleteRelation
    \/ StartSaveProject
    \/ StartRemoveProject
    \/ StartSetCurrentProject
    \/ StartClear
    \/ StartMemFree
    \/ Callback

\* the store invokes every callback in the end
LiveSpec == Init /\ [][LiveNext]_vars /\ WF_vars(Callback)

----------------------------------------------------------------------------
(* Calls in flight together: a call runs up to the store call it issues next;
   the store serves the calls it was handed in the order it got them and
   invokes the callback of each, which runs up to the next store call *)

\* a call in flight: pk is the key of the project it is about, stage the store
\* call it waits for ("done" when it waits for none), during the calls that
\* waited for the store when it was started, ctx what its closures hold
Racer(op, pk, stage, status, ctx) ==
    [op |-> op, pk |-> pk, stage |-> stage, status |-> status, during |-> {}, ctx |-> ctx]

\* the index and the store after a step of a call, and the call after it
Step(m, r) == [m |-> m, r |-> r]

\* the pk of the project findProject gives for the number n, -1 when it gives none
ProjectPkOf(m, n) ==
    LET projectInfo == findProject(m, PNum(n))[2]
    IN IF IsUndefined(projectInfo) THEN -1 ELSE projectInfo.pk

\* the promise executor of add (lines 700-759): the index is changed in
\* memory as it is when the set fails, and the set is issued with storable,
\* the keys and values the set of a call that resolves writes
addStarted(m, phrase, project, executed, written) ==
    IF executed.calls = << >>
    THEN Step(executed.m, Racer("add", -1, "done", "rejected", [value |-> executed.value]))
    ELSE Step(executed.m,
              Racer("add", ProjectPkOf(m, project), "set", "started",
                    [storable |-> [k \in written.calls[1].keys |-> written.m.store[k]],
                     key |-> normalize(m, phrase, PObj(findProject(m, PNum(project))[2])),
                     keyPair |-> AddKeyPair(m, phrase, project)]))

addStart(m, phrase, project, data) ==
    addStarted(m, phrase, project,
               add(m, phrase, project, data, 1), add(m, phrase, project, data, 0))

\* the store set of add and its callback (lines 759-765)
addStored(m, r) ==
    Step([m EXCEPT !.store = r.ctx.storable @@ @],
         [r EXCEPT !.stage = "done", !.status = "resolved"])

\* the promise executor of a lookup in one project (lines 482-512, 525-530):
\* it settles at once when the cache holds every key, else it issues the get
findStarted(m, settled, keys, pk) ==
    IF settled.calls = << >>
    THEN Step(settled.m, Racer("find", pk, "done", settled.status, [value |-> settled.value]))
    ELSE Step(m, Racer("find", pk, "get", "started",
                       [cached |-> LookupCacheHits(m, keys, Len(keys)),
                        rest |-> SelectSeq(keys, LAMBDA k :
                                    IsNullish(MapGet(m.cache, Key(k[1], k[2]))))]))

findStart(m, query) ==
    findStarted(m, find(m, query, 0, FALSE),
                LookupKeys(query.project,
                           [j \in DOMAIN query.project |->
                               projectIndex(m, query.phrase, PNum(query.project[j]))]),
                ProjectPkOf(m, query.project[1]))

\* the store get of a lookup and its callback (lines 512-524)
findSettled(r, o) ==
    Step(o.m, [r EXCEPT !.stage = "done",
                        !.status = IF o.status = "pending" THEN "unsettled" ELSE o.status,
                        !.ctx = [value |-> o.value]])

findFetched(m, r, cloneThrows) ==
    findSettled(r, findLookupFetched(m, r.ctx.cached, r.ctx.rest,
                                     FetchedUpTo(m, r.ctx.rest, cloneThrows), 0))

\* the keys under which the callback of a lookup's get calls cache.set
findCached(m, r, cloneThrows) ==
    {Key(r.ctx.rest[j][1], r.ctx.rest[j][2]) :
        j \in 1..FetchedUpTo(m, r.ctx.rest, cloneThrows)}

\* what the closures of removeProject hold (lines 975-980, 994-995)
RemoveCtx(projectInfo, delenda, found, missing, notes) ==
    [projectInfo |-> projectInfo, delenda |-> delenda, found |-> found,
     missing |-> missing, notes |-> notes,
     adjustables |-> << >>, adjustanda |-> << >>, memoranda |-> EmptyMap]

\* an exception in removeProject: a rejection in the executor, no settling later
removeProjectThrew(m, r, sync) ==
    Step(m, [r EXCEPT !.stage = "done",
                      !.status = IF sync THEN "rejected" ELSE "unsettled"])

\* continuation2 of removeProject up to its store remove (lines 997-1009)
removeProjectAdjust(m, r, sync) ==
    LET adjusted == Adjust([cache |-> m.cache, memoranda |-> EmptyMap, threw |-> FALSE],
                           r.ctx.adjustables, r.ctx.projectInfo.pk)
        m2 == [m EXCEPT !.cache = adjusted.cache]
    IN IF adjusted.threw THEN removeProjectThrew(m2, r, sync)
       ELSE Step(m2, [r EXCEPT !.stage = "remove", !.ctx.memoranda = adjusted.memoranda])

\* continuation1 of removeProject up to its store get (lines 993-996, 1034-1058)
removeProjectTargets(m, r, sync) ==
    LET notes == r.ctx.notes
        targets == FlattenSeq([j \in DOMAIN notes |->
                                  SeeAlsoElsewhere(notes[j], r.ctx.projectInfo.pk)])
        isCached(q) == TruthyObject(MapGet(m.cache, Key(q[1], q[2])))
        cachedOnes == SelectSeq(targets, isCached)
        adjustanda == SelectSeq(targets, LAMBDA q : ~isCached(q))
        r2 == [r EXCEPT !.ctx.adjustables =
                            [j \in DOMAIN cachedOnes |->
                                <<Key(cachedOnes[j][1], cachedOnes[j][2]), TRUE, NoValue>>],
                        !.ctx.adjustanda = adjustanda]
    IN IF \E j \in DOMAIN notes : ~HasRelations(notes[j]) THEN removeProjectThrew(m, r, sync)
       ELSE IF adjustanda = << >> THEN removeProjectAdjust(m, r2, sync)
       ELSE Step(m, [r2 EXCEPT !.stage = "getAdjustanda"])

\* the promise executor of removeProject (lines 975-991, 1060-1073)
removeProjectStart(m, project) ==
    LET projectInfo == findProject(m, project)[2] IN
    IF IsUndefined(projectInfo) \/ ~MapHas(m.projectIndices, projectInfo.pk)
    THEN Step(m, Racer("removeProject", -1, "done", "rejected", [value |-> Thrown]))
    ELSE
    LET entries == IndexEntries(m.projectIndices[projectInfo.pk])
        keyOf(j) == Key(projectInfo.pk, entries[j][2])
        isCached(j) == TruthyObject(MapGet(m.cache, keyOf(j)))
        ix == [j \in DOMAIN entries |-> j]
        foundIx == SelectSeq(ix, isCached)
        missingIx == SelectSeq(ix, LAMBDA j : ~isCached(j))
        r == Racer("removeProject", projectInfo.pk, "getMissing", "started",
                   RemoveCtx(projectInfo,
                             {keyOf(j) : j \in DOMAIN entries},
                             {keyOf(foundIx[j]) : j \in DOMAIN foundIx},
                             [j \in DOMAIN missingIx |-> keyOf(missingIx[j])],
                             [j \in DOMAIN foundIx |-> m.cache[keyOf(foundIx[j])]]))
    IN IF missingIx = << >> THEN removeProjectTargets(m, r, TRUE) ELSE Step(m, r)

\* the store get of the missing notes and its callback (lines 1061-1070)
removeProjectFetched(m, r) ==
    LET fetched == SelectSeq(r.ctx.missing, LAMBDA k : MapHas(m.store, k))
    IN removeProjectTargets(m, [r EXCEPT !.ctx.notes =
                                    @ \o [j \in DOMAIN fetched |-> m.store[fetched[j]]]],
                            FALSE)

\* the store get of the adjustanda and its callback (lines 1046-1055)
removeProjectAdjustables(m, r) ==
    LET fetchedKeys == SelectSeq(r.ctx.adjustanda, LAMBDA q : MapHas(m.store, Key(q[1], q[2])))
        firstOnly == SelectSeq([j \in DOMAIN fetchedKeys |-> j],
                               LAMBDA j : \A h \in 1..(j - 1) : fetchedKeys[h] # fetchedKeys[j])
        fetched == [j \in DOMAIN firstOnly |->
                       LET k == Key(fetchedKeys[firstOnly[j]][1], fetchedKeys[firstOnly[j]][2])
                       IN <<k, FALSE, m.store[k]>>]
    IN removeProjectAdjust(m, [r EXCEPT !.ctx.adjustables = @ \o fetched], FALSE)

\* the store remove and its callback up to the store set (lines 1009-1021)
removeProjectRemoved(m, r) ==
    LET projectInfo == r.ctx.projectInfo
        removeKeys == r.ctx.delenda \cup {PkKey(projectInfo.pk)}
        wasCurrent == m.currentProject = projectInfo.pk
        m3 == [m EXCEPT !.store = [k \in DOMAIN @ \ removeKeys |-> @[k]],
                        !.projects = MapDelete(@, projectInfo.name),
                        !.reverseProjectIndex = MapDelete(@, projectInfo.pk),
                        !.currentProject = IF wasCurrent THEN 0 ELSE @]
        memoranda == [k \in DOMAIN r.ctx.memoranda \cup {"projects"}
                             \cup (IF wasCurrent THEN {"currentProject"} ELSE {}) |->
                         IF k = "projects" THEN m3.projects
                         ELSE IF k = "currentProject" THEN 0
                         ELSE r.ctx.memoranda[k]]
    IN Step(m3, [r EXCEPT !.stage = "set", !.ctx.memoranda = memoranda])

\* the store set of removeProject and its callback (lines 1021-1030)
removeProjectSaved(m, r) ==
    Step([m EXCEPT !.store = r.ctx.memoranda @@ @,
                   !.cache = DeleteFromCache(@, r.ctx.found)],
         [r EXCEPT !.stage = "done", !.status = "resolved"])

\* the store serves the call of r and invokes its callback
Served(m, r, cloneThrows) ==
    CASE r.op = "add" -> addStored(m, r)
      [] r.op = "find" -> findFetched(m, r, cloneThrows)
      [] r.op = "removeProject" /\ r.stage = "getMissing" -> removeProjectFetched(m, r)
      [] r.op = "removeProject" /\ r.stage = "getAdjustanda" -> removeProjectAdjustables(m, r)
      [] r.op = "removeProject" /\ r.stage = "remove" -> removeProjectRemoved(m, r)
      [] r.op = "removeProject" /\ r.stage = "set" -> removeProjectSaved(m, r)

\* cache.set(key, ...) puts another object into the cache: an adjustable that a
\* removeProject in flight took from the cache under key is from then on not
\* the cache's object; it is the note cache0 held
Detached(racers, keys, cache0) ==
    [i \in DOMAIN racers |->
        IF racers[i].op = "removeProject" /\ racers[i].stage = "getAdjustanda"
        THEN LET a == racers[i].ctx.adjustables
             IN [racers[i] EXCEPT !.ctx.adjustables =
                    [j \in DOMAIN a |->
                        IF a[j][2] /\ a[j][1] \in keys /\ MapHas(cache0, a[j][1])
                        THEN <<a[j][1], FALSE, cache0[a[j][1]]>>
                        ELSE a[j]]]
        ELSE racers[i]]

\* at most MaxRacers add and find calls are started together
MaxRacers == 2

RaceDataInputs == {NoteRecord(FALSE, << >>, << >>)}

RaceLookupInputs ==
    {Lookup(phrase, <<n>>) : phrase \in PhraseInputs, n \in 0..MaxProjectPk}

\* the calls that wait for the store
Waiting == {i \in DOMAIN inFlight : inFlight[i].stage # "done"}

MayRace == Cardinality({i \in DOMAIN inFlight : inFlight[i].op # "removeProject"}) < MaxRacers

\* the fields of the index and the store become those of m
Becomes(m) ==
    /\ projects' = m.projects
    /\ reverseProjectIndex' = m.reverseProjectIndex
    /\ projectIndices' = m.projectIndices
    /\ currentProject' = m.currentProject
    /\ tags' = m.tags
    /\ cache' = m.cache
    /\ store' = m.store

\* a call is started: its executor has run and has handed its store call, if
\* it made one, to the store; replaced are the keys it called cache.set with
Launched(step, replaced) ==
    /\ Becomes(step.m)
    /\ inFlight' = Append(Detached(inFlight, replaced, cache),
                          [step.r EXCEPT !.during = Waiting])
    /\ storeQueue' = IF step.r.stage = "done" THEN storeQueue
                     ELSE Append(storeQueue, Len(inFlight) + 1)
    /\ UNCHANGED <<last, nops, promise, allResolved, storeFailed, appVars>>

\* add is started: it has called cache.set with the key of its note
LaunchedAdd(step) ==
    Launched(step, IF step.r.stage = "done" THEN {}
                   ELSE {Key(step.r.ctx.keyPair[1], step.r.ctx.keyPair[2])})

RaceAdd ==
    \E project \in 0..MaxProjectPk, phrase \in PhraseInputs, data \in RaceDataInputs :
        /\ MayRace
        /\ AddAllowed(Mem, phrase, project)
        /\ LaunchedAdd(addStart(Mem, phrase, project, data))

RaceFind ==
    \E query \in RaceLookupInputs :
        /\ MayRace
        /\ Launched(findStart(Mem, query), {})

RaceRemoveProject ==
    \E n \in 0..MaxProjectPk :
        /\ \A i \in DOMAIN inFlight : inFlight[i].op # "removeProject"
        /\ Launched(removeProjectStart(Mem, PNum(n)), {})

\* the store has served the call at the head of its queue and its callback has
\* run; replaced are the keys the callback called cache.set with
ServedHead(step, replaced) ==
    /\ Becomes(step.m)
    /\ inFlight' = [Detached(inFlight, replaced, cache) EXCEPT ![Head(storeQueue)] = step.r]
    /\ storeQueue' = Tail(storeQueue)
                        \o (IF step.r.stage = "done" THEN << >> ELSE <<Head(storeQueue)>>)
    /\ UNCHANGED <<last, nops, promise, allResolved, storeFailed, appVars>>

\* the store serves the call at the head of its queue
Serve ==
    \E cloneThrows \in BOOLEAN :
        /\ storeQueue # << >>
        /\ ServedHead(Served(Mem, inFlight[Head(storeQueue)], cloneThrows),
                      IF inFlight[Head(storeQueue)].op = "find"
                      THEN findCached(Mem, inFlight[Head(storeQueue)], cloneThrows) ELSE {})

\* the calls made one after the other before calls are started together: they
\* resolve, and give the index a second project and notes, cached and not
FirstSaveInputs == {p \in SaveInputs : p.name # << >>}

FirstDataInputs ==
    {NoteRecord(FALSE, << >>, << >>), NoteRecord(FALSE, << >>, << <<SeeAlso, << <<0, 0>> >> >> >>)}

FirstSaveProject ==
    \E p \in FirstSaveInputs :
        /\ inFlight = << >> /\ MayCall
        /\ SaveAllowed(Mem, p.name)
        /\ Settle("saveProject",
                  saveProject(Mem, p.name, p.description, p.normalizer, p.relations, 0))

FirstAdd ==
    \E project \in 0..MaxProjectPk, data \in FirstDataInputs :
        /\ inFlight = << >> /\ MayCall
        /\ AddAllowed(Mem, <<"c", "a">>, project)
        /\ Settle("add", add(Mem, <<"c", "a">>, project, data, 0))

FirstGetIndex ==
    /\ inFlight = << >> /\ MayCall
    /\ Settle("getIndex", getIndex(Mem, 0))

RaceNext ==
    \/ FirstSaveProject
    \/ FirstAdd
    \/ FirstGetIndex
    \/ RaceAdd
    \/ RaceFind
    \/ RaceRemoveProject
    \/ Serve

RaceSpec == Init /\ [][RaceNext]_vars

----------------------------------------------------------------------------
(* The App component: the navigation history and the tab *)

\* a NoteState as far as the history reads it: the key of its note and the
\* flags goto and cleanHistory set
NoteState(key, everSaved, unsavedContent) ==
    [key |-> key, everSaved |-> everSaved, unsavedContent |-> unsavedContent,
     citationIndex |-> 0]

\* nullState() of ./Note: the state of a note that holds nothing
nullState ==
    [key |-> << >>, everSaved |-> FALSE, unsavedContent |-> FALSE, citationIndex |-> 0]

\* a Visit {current, saved}
Visit(current, saved) == [current |-> current, saved |-> saved]

\* the fields of App.state that the history methods read and write
AppState == [tab |-> tab, history |-> history, historyIndex |-> historyIndex]

\* history[i] of JavaScript: the element with index i, undefined where there is none
HistoryAt(h, i) == IF (i + 1) \in DOMAIN h THEN h[i + 1] ELSE Undefined

\* App.recentHistory
recentHistory(a) == HistoryAt(a.history, a.historyIndex)

\* App.currentNote
currentNote(a) ==
    IF IsUndefined(recentHistory(a)) THEN Undefined ELSE recentHistory(a).current

\* anyDifference of ./modules/clone: the two values are not deep-equal
anyDifference(x, y) == x # y

\* sameNote of ./modules/util: the two notes have the same key
sameNote(note, cn) == note.key = cn.key

\* App.changeHistory: with historyIndex -1 the assignment adds the property
\* "-1" to the array and no element
changeHistory(a, current, saved) ==
    IF (a.historyIndex + 1) \in DOMAIN a.history
    THEN [a EXCEPT !.history[a.historyIndex + 1] = Visit(current, saved)]
    ELSE IF a.historyIndex = Len(a.history)
    THEN [a EXCEPT !.history = Append(@, Visit(current, saved))]
    ELSE a

\* App.makeHistory
makeHistory(a, current, saved) ==
    IF anyDifference(recentHistory(a), Visit(current, saved))
    THEN [a EXCEPT !.history = Append(@, Visit(current, saved)),
                   !.historyIndex = Len(a.history)]
    ELSE a

\* history.splice(0, n): the first n elements, all of them when there are fewer
Spliced(h, n) == SubSeq(h, 1, IF n < Len(h) THEN n ELSE Len(h))

\* a goto that leaves the history as long as it is
gotoKeepingFuture(a, note) ==
    IF ~IsUndefined(currentNote(a)) /\ sameNote(note, currentNote(a))
    THEN [a EXCEPT !.tab = 0]
    ELSE [makeHistory(a, NoteState(note.key, TRUE, FALSE), NoteState(note.key, TRUE, FALSE))
             EXCEPT !.tab = 0]

\* App.goto, with the callback of its setState
goto(a, note) ==
    IF ~IsUndefined(currentNote(a)) /\ sameNote(note, currentNote(a))
    THEN [a EXCEPT !.tab = 0]
    ELSE [makeHistory([a EXCEPT !.history = Spliced(a.history, a.historyIndex + 1)],
                      NoteState(note.key, TRUE, FALSE), NoteState(note.key, TRUE, FALSE))
             EXCEPT !.tab = 0]

\* App.timeTravel; given says whether current and saved are passed. Where it
\* does not travel it warns or does nothing
timeTravel(a, index, given, current, saved) ==
    IF index # a.historyIndex /\ index >= 0 /\ ~IsUndefined(HistoryAt(a.history, index))
    THEN IF given
         THEN [makeHistory(a, current, saved) EXCEPT !.historyIndex = index, !.tab = 0]
         ELSE a
    ELSE a

\* App.state.search as the constructor sets it: {type: "ad hoc"}
InitialSearch == AdHoc(FALSE, << >>, "none", FALSE, << >>, "none", << >>, << >>)

\* App.cleanSearch: the changes are made once find has settled, whether it
\* resolved or rejected; out is the outcome of find
cleanSearch(a, out) ==
    IF out.status = "pending" THEN a
    ELSE [a EXCEPT !.tab = 2, !.historyIndex = 0]

\* the loop of cleanHistory (lines 311-335) from index i down to 0; found are
\* the keys getBatch retrieved a note for, known the pks of reverseProjectIndex
RECURSIVE CleanFrom(_, _, _, _)
CleanFrom(a, i, found, known) ==
    IF i < 0 THEN a
    ELSE LET visit == a.history[i + 1]
             key == visit.current.key
         IN IF key \in found
            THEN CleanFrom([a EXCEPT !.history[i + 1] =
                               Visit(NoteState(key, TRUE, FALSE), NoteState(key, TRUE, FALSE))],
                           i - 1, found, known)
            ELSE IF key[1] \in known
            THEN CleanFrom([a EXCEPT !.history[i + 1] =
                               Visit([visit.current EXCEPT !.unsavedContent = TRUE,
                                                           !.everSaved = FALSE],
                                     nullState)],
                           i - 1, found, known)
            ELSE CleanFrom([a EXCEPT !.history =
                                         SubSeq(@, 1, i) \o SubSeq(@, i + 2, Len(@)),
                                     !.historyIndex = IF @ > i THEN @ - 1
                                                      ELSE IF @ = i THEN 0 ELSE @],
                           i - 1, found, known)

\* App.cleanHistory once getBatch has settled; found is empty when it rejected
cleanHistory(a, m, found) ==
    CleanFrom(a, Len(a.history) - 1, found, DOMAIN m.reverseProjectIndex)

\* the history holds at most MaxHistory visits
MaxHistory == 3

\* the notes the App is handed: one note in every project
NoteInputs == {[key |-> <<p, 0>>] : p \in 0..MaxProjectPk}

\* the states of a note makeHistory, changeHistory and timeTravel are called
\* with: the note as saved, and the note with unsaved changes
VisitInputs ==
    {Visit(NoteState(note.key, TRUE, unsaved), NoteState(note.key, TRUE, FALSE)) :
        note \in NoteInputs, unsaved \in BOOLEAN}

\* the App is handed notes of the projects of the index
KnownProject(key) == MapHas(reverseProjectIndex, key[1])

\* the history of a holds no more than MaxHistory visits
Fits(a) == Len(a.history) <= MaxHistory

\* App.state becomes a; the index and the store stay as they are
AppBecomes(a) ==
    /\ tab' = a.tab
    /\ history' = a.history
    /\ historyIndex' = a.historyIndex
    /\ UNCHANGED <<projects, reverseProjectIndex, projectIndices, currentProject, tags,
                   cache, store, last, nops, promise, allResolved, storeFailed, raceVars>>

MakeHistory ==
    \E v \in VisitInputs :
        /\ KnownProject(v.current.key)
        /\ Fits(makeHistory(AppState, v.current, v.saved))
        /\ AppBecomes(makeHistory(AppState, v.current, v.saved))

ChangeHistory ==
    \E v \in VisitInputs :
        /\ KnownProject(v.current.key)
        /\ Fits(changeHistory(AppState, v.current, v.saved))
        /\ AppBecomes(changeHistory(AppState, v.current, v.saved))

Goto ==
    \E note \in NoteInputs :
        /\ KnownProject(note.key)
        /\ Fits(goto(AppState, note))
        /\ AppBecomes(goto(AppState, note))

TimeTravel ==
    \E index \in -1..MaxHistory, given \in BOOLEAN, v \in VisitInputs :
        /\ KnownProject(v.current.key)
        /\ Fits(timeTravel(AppState, index, given, v.current, v.saved))
        /\ AppBecomes(timeTravel(AppState, index, given, v.current, v.saved))

CleanSearch ==
    \E fail \in FailInputs :
        /\ Fits(AppState)
        /\ AppBecomes(cleanSearch(AppState, find(Mem, InitialSearch, fail, FALSE)))

CleanHistory ==
    \E found \in SUBSET {history[j].current.key : j \in DOMAIN history} :
        /\ Fits(AppState)
        /\ AppBecomes(cleanHistory(AppState, Mem, found))

\* the App with an index whose projects are saved and removed
AppNext ==
    \/ MakeHistory
    \/ ChangeHistory
    \/ Goto
    \/ TimeTravel
    \/ CleanSearch
    \/ CleanHistory
    \/ SaveProject
    \/ RemoveProject

AppSpec == Init /\ [][AppNext]_vars

----------------------------------------------------------------------------
(* What the claims speak of *)

\* the other member of the first declared pair that contains relation, null
\* when no pair contains it
RECURSIVE PairedRelationFrom(_, _)
PairedRelationFrom(relations, relation) ==
    IF relations = << >> THEN Null
    ELSE IF Head(relations)[1] = relation THEN Str(Head(relations)[2])
    ELSE IF Head(relations)[2] = relation THEN Str(Head(relations)[1])
    ELSE PairedRelationFrom(Tail(relations), relation)

PairedRelation(projectInfo, relation) == PairedRelationFrom(projectInfo.relations, relation)

\* the relation names some project of the registry declares
DeclaredIn(projectInfo) ==
    UNION {{projectInfo.relations[i][1], projectInfo.relations[i][2]} :
              i \in DOMAIN projectInfo.relations}

DeclaredRelations == UNION {DeclaredIn(projects[n]) : n \in DOMAIN projects}

\* the pks of the projects of the registry
RegistryPks == {projects[n].pk : n \in DOMAIN projects}

\* the ProjectInfo of the registry with primary key pk
InfoOfPk(pk) == projects[CHOOSE n \in DOMAIN projects : projects[n].pk = pk]

\* the key pairs notes of the model can have
NoteKeys == {<<p, n>> : p \in 0..MaxProjectPk, n \in 0..MaxNotePk}

\* the map c (the cache or the store) holds a NoteRecord under key pair q
HoldsNote(c, q) == MapHas(c, Key(q[1], q[2])) /\ HasRelations(c[Key(q[1], q[2])])

\* the NoteRecord under q in c lists key pair p under relation r
Lists(c, q, r, p) ==
    HoldsNote(c, q) /\ p \in Range(ObjGetOrEmpty(c[Key(q[1], q[2])].relations, r))

\* the note with key pair q as the index has it: the cached one, else the stored one
NoteAt(m, q) ==
    IF HoldsNote(m.cache, q) THEN m.cache[Key(q[1], q[2])] ELSE m.store[Key(q[1], q[2])]

\* the note with key pair q exists in the cache or in the store
NoteExists(m, q) == HoldsNote(m.cache, q) \/ HoldsNote(m.store, q)

----------------------------------------------------------------------------
(* C1, C2 *)

\* C1: when add resolves for a note A whose data.relations[R] names a cached
\* note B other than A, in a project that declares the pair (R, R2), then B
\* lists A's key under R2 both in the cache and in the store afterwards.
C1_AddMirrorsRelation ==
    \A phrase \in PhraseInputs, project \in 0..MaxProjectPk, data \in DataInputs :
        LET o == add(Mem, phrase, project, data, 0)
            projectInfo == findProject(Mem, PNum(project))[2]
            keyPair == AddKeyPair(Mem, phrase, project)
        IN (AddAllowed(Mem, phrase, project) /\ o.status = "resolved") =>
            \A i \in DOMAIN data.relations :
                LET R2 == PairedRelation(projectInfo, data.relations[i][1]) IN
                ~IsNull(R2) =>
                    \A B \in Range(data.relations[i][2]) :
                        (B # keyPair /\ HoldsNote(cache, B)) =>
                            /\ Lists(o.m.cache, B, R2.str, keyPair)
                            /\ Lists(o.m.store, B, R2.str, keyPair)

\* C2: for every stored note X of a project of the registry and every entry
\* (R, Y) of X.relations whose relation has a declared reverse and whose note Y
\* exists in the cache or the store, Y lists X's key under the reverse of R.
C2_RelationsAreMirrored ==
    \A X \in NoteKeys :
        (HoldsNote(store, X) /\ X[1] \in RegistryPks) =>
            LET relations == store[Key(X[1], X[2])].relations IN
            \A i \in DOMAIN relations :
                LET R2 == PairedRelation(InfoOfPk(X[1]), relations[i][1]) IN
                ~IsNull(R2) =>
                    \A Y \in Range(relations[i][2]) :
                        NoteExists(Mem, Y) =>
                            X \in Range(ObjGetOrEmpty(NoteAt(Mem, Y).relations, R2.str))

----------------------------------------------------------------------------
(* C3 *)

\* C3: when add({phrase, project, data}) resolves for a project of the
\* registry, the lookup of phrase in project that follows resolves to "found"
\* with the one match [project, data].
C3_AddThenLookupFinds ==
    \A phrase \in PhraseInputs, project \in 0..MaxProjectPk, data \in DataInputs,
       cloneThrows \in BOOLEAN :
        LET o == add(Mem, phrase, project, data, 0)
            f == find(o.m, Lookup(phrase, <<project>>), 0, cloneThrows)
        IN (/\ project \in RegistryPks
            /\ AddAllowed(Mem, phrase, project)
            /\ o.status = "resolved") =>
               /\ f.status = "resolved"
               /\ f.value = [state |-> "found", matches |-> << <<project, data>> >>]

----------------------------------------------------------------------------
(* C4 *)

\* C4: project primary key 0 exists in the project registry in every reachable
\* state, whatever saveProject, removeProject, setCurrentProject and clear
\* calls were made.
C4_DefaultProjectExists == 0 \in RegistryPks

----------------------------------------------------------------------------
(* C5 *)

\* the existing notes of the projects of the registry that the phrase names:
\* the phrase index of the project holds the phrase, normalized by the
\* project's normalizer, and the note is in the cache or the store
MatchingNotes(phrase) ==
    {q \in NoteKeys :
        /\ q[1] \in RegistryPks
        /\ MapHas(projectIndices, q[1])
        /\ MapHas(projectIndices[q[1]], NormalizerCode(InfoOfPk(q[1]).normalizer, phrase))
        /\ projectIndices[q[1]][NormalizerCode(InfoOfPk(q[1]).normalizer, phrase)] = q[2]
        /\ NoteExists(Mem, q)}

\* the state a lookup answers with when n notes match
StateFor(n) == IF n = 0 THEN "none" ELSE IF n = 1 THEN "found" ELSE "ambiguous"

\* C5: while the default project is in the registry, a lookup with the project
\* omitted resolves, its state is "found", "ambiguous" or "none" by the number
\* of existing notes that match the phrase, and every match it returns is the
\* note record of one of them.
C5_LookupCountsMatchingNotes ==
    \A phrase \in QueryPhraseInputs, cloneThrows \in BOOLEAN :
        LET f == find(Mem, Lookup(phrase, << >>), 0, cloneThrows) IN
        0 \in RegistryPks =>
            /\ f.status = "resolved"
            /\ f.value.state = StateFor(Cardinality(MatchingNotes(phrase)))
            /\ \A i \in DOMAIN f.value.matches :
                   \E q \in MatchingNotes(phrase) :
                       f.value.matches[i] = <<q[1], NoteAt(Mem, q)>>

----------------------------------------------------------------------------
(* C6 *)

\* the existing notes of the projects of the registry whose normalized phrase
\* is the normalized phrase of the query, and those whose normalized phrase
\* contains it
NotesEqual(phrase) ==
    {q \in NoteKeys :
        /\ q[1] \in RegistryPks
        /\ MapHas(projectIndices, q[1])
        /\ \E normed \in DOMAIN projectIndices[q[1]] :
               /\ projectIndices[q[1]][normed] = q[2]
               /\ normed = NormalizerCode(InfoOfPk(q[1]).normalizer, phrase)
        /\ NoteExists(Mem, q)}

NotesContaining(phrase) ==
    {q \in NoteKeys :
        /\ q[1] \in RegistryPks
        /\ MapHas(projectIndices, q[1])
        /\ \E normed \in DOMAIN projectIndices[q[1]] :
               /\ projectIndices[q[1]][normed] = q[2]
               /\ Contains(normed, NormalizerCode(InfoOfPk(q[1]).normalizer, phrase))
        /\ NoteExists(Mem, q)}

\* C6: an ad hoc query with strictness "exact" returns only notes whose
\* normalized phrase is the normalized phrase of the query, and an ad hoc
\* query with strictness "substring" and no other filter resolves with
\* exactly the notes whose normalized phrase contains it.
C6_AdHocStrictness ==
    \A query \in AdHocInputs :
        LET f == find(Mem, query, 0, FALSE) IN
        /\ (query.strictness = "exact" /\ f.status = "resolved") =>
               \A i \in DOMAIN f.value.matches :
                   \E q \in NotesEqual(query.phrase) :
                       f.value.matches[i] = <<q[1], NoteAt(Mem, q)>>
        /\ (query.strictness = "substring" /\ query.starred = "none") =>
               /\ f.status = "resolved"
               /\ Range(f.value.matches) =
                      {<<q[1], NoteAt(Mem, q)>> : q \in NotesContaining(query.phrase)}

----------------------------------------------------------------------------
(* C7, C8 *)

\* the relations of the note with key pair q in the map c
RelationsIn(c, q) == c[Key(q[1], q[2])].relations

\* the note with key pair q is saved: the cache and the store hold it
Saved(m, q) == HoldsNote(m.cache, q) /\ HoldsNote(m.store, q)

\* C7: for two saved notes A and B of which A has no relation R to B, adding
\* the relation with add and then calling deleteRelation(A's phrase, project,
\* R, B) resolves and leaves the relations of A and of B, in the cache and in
\* the store, as they were before the add.
C7_DeleteRelationInvertsAdd ==
    \A phrase \in PhraseInputs, project \in RegistryPks, B \in NoteKeys :
        \A R \in DeclaredIn(InfoOfPk(project)) :
            LET A == AddKeyPair(Mem, phrase, project)
                before == cache[Key(A[1], A[2])]
                data == [before EXCEPT !.relations =
                            ObjSet(@, R, Append(ObjGetOrEmpty(@, R), B))]
                o1 == add(Mem, phrase, project, data, 0)
                o2 == deleteRelation(o1.m, phrase, InfoOfPk(project), R, B, 0)
            IN (/\ A[1] = project
                /\ A \in NoteKeys
                /\ A # B
                /\ Saved(Mem, A)
                /\ Saved(Mem, B)
                /\ B \notin Range(ObjGetOrEmpty(before.relations, R))
                /\ o1.status = "resolved") =>
                   /\ o2.status = "resolved"
                   /\ \A q \in {A, B} :
                          /\ Saved(o2.m, q)
                          /\ RelationsIn(o2.m.cache, q) = RelationsIn(cache, q)
                          /\ RelationsIn(o2.m.store, q) = RelationsIn(store, q)

\* C8: deleteRelation rejects, and issues no store set, when the relation is
\* in no declared pair of the project's relations and when the normalized
\* phrase is not in the project's phrase index.
C8_DeleteRelationRejects ==
    \A phrase \in QueryPhraseInputs, name \in DOMAIN projects, pair \in PairInputs :
        \A relation \in DeclaredRelations \cup RelationInputs :
            LET o == deleteRelation(Mem, phrase, projects[name], relation, pair, 0)
                undeclared == IsNull(PairedRelation(projects[name], relation))
                indexed ==
                    /\ MapHas(projectIndices, projects[name].pk)
                    /\ MapHas(projectIndices[projects[name].pk],
                              NormalizerCode(projects[name].normalizer, phrase))
            IN (undeclared \/ ~indexed) =>
                   /\ o.status = "rejected"
                   /\ \A i \in DOMAIN o.calls : o.calls[i].op # "set"

\* deleteRelation was called for a phrase of the index with the undeclared
\* relation "synonym" and rejected for want of a reverse
C8_RejectedUndeclared ==
    /\ last.op = "deleteRelation"
    /\ last.status = "rejected"
    /\ "about" \in DOMAIN last.value
    /\ last.value.err = "could not find the reversed relation for"
    /\ last.value.about[1] = "synonym"

----------------------------------------------------------------------------
(* C9 *)

\* C9: for every project of the registry and every relation name,
\* reverseRelation returns the other member of the declared pair that contains
\* the relation (the relation itself for a self-paired entry), and null
\* exactly when no declared pair contains it.
C9_ReverseRelationIsPairedRelation ==
    \A n \in DOMAIN projects :
        \A relation \in DeclaredRelations \cup RelationInputs :
            reverseRelation(projects[n], relation) = PairedRelation(projects[n], relation)

----------------------------------------------------------------------------
(* C10 *)

\* the map c holds, under key pair q, a NoteRecord or the object of a store
\* get that holds one
HoldsRecord(c, q) ==
    /\ MapHas(c, Key(q[1], q[2]))
    /\ \/ HasRelations(c[Key(q[1], q[2])])
       \/ "present" \in DOMAIN c[Key(q[1], q[2])] /\ c[Key(q[1], q[2])].present

\* the project keys removeProject(project) is about: the key of the project it
\* finds and, for a number, the number itself
RemovedPks(m, project) ==
    {findProject(m, project)[2].pk} \cup (IF project.t = "number" THEN {project.n} ELSE {})

\* C10: when removeProject(P) resolves, neither the cache nor the store holds a
\* note record under a key of project P.
C10_RemoveProjectRemovesNotes ==
    \A project \in ProjectIdInputs :
        LET o == removeProject(Mem, project, 0) IN
        o.status = "resolved" =>
            \A P \in RemovedPks(Mem, project), n \in 0..MaxNotePk :
                /\ ~HoldsRecord(o.m.cache, <<P, n>>)
                /\ ~HoldsRecord(o.m.store, <<P, n>>)

----------------------------------------------------------------------------
(* C11 *)

\* C11: when removeProject resolves for a project P other than the default
\* project, projectIndices has no entry for P afterwards and the store has no
\* phrase-index blob under P's key.
C11_RemoveProjectRemovesIndex ==
    \A project \in ProjectIdInputs :
        LET o == removeProject(Mem, project, 0)
            P == findProject(Mem, project)[2].pk
        IN (o.status = "resolved" /\ P # 0) =>
               /\ ~MapHas(o.m.projectIndices, P)
               /\ ~MapHas(o.m.store, PkKey(P))

----------------------------------------------------------------------------
(* C12 *)

\* the "see also" entries of the note record under X in the map c
SeeAlsoOf(c, X) == Range(ObjGetOrEmpty(c[Key(X[1], X[2])].relations, SeeAlso))

\* C12: when removeProject resolves for project P, no note of another project
\* that is left in the cache or in the store has a "see also" entry naming a
\* note that P held.
C12_RemoveProjectStripsSeeAlso ==
    \A project \in ProjectIdInputs :
        LET o == removeProject(Mem, project, 0)
            P == findProject(Mem, project)[2].pk
        IN o.status = "resolved" =>
               \A X \in NoteKeys, Y \in NoteKeys :
                   (X[1] # P /\ Y[1] = P /\ NoteExists(Mem, Y)) =>
                       /\ HoldsNote(o.m.cache, X) => Y \notin SeeAlsoOf(o.m.cache, X)
                       /\ HoldsNote(o.m.store, X) => Y \notin SeeAlsoOf(o.m.store, X)

----------------------------------------------------------------------------
(* C13 *)

\* the numbers a failing store call of removeProject can have
RemoveFailInputs == 1..4

\* the call removeProject(project) whose store call number fail was issued and
\* reported an error
RemoveFailedAt(o, fail) == Len(o.calls) = fail /\ o.status = "rejected"

\* C13: when the store set of removeProject fails after its remove, the promise
\* is rejected with the message that the notes were deleted but changes could
\* not be saved; when the remove or an earlier get fails, the promise is
\* rejected with the store's error and the store, the registry and the cache
\* are as they were before the call.
C13_RemoveProjectFailures ==
    \A project \in ProjectIdInputs, fail \in RemoveFailInputs :
        LET o == removeProject(Mem, project, fail)
            info == findProject(Mem, project)[2]
        IN RemoveFailedAt(o, fail) =>
               IF o.calls[fail].op = "set"
               THEN /\ o.value.err = "all the notes have been deleted, but some changes could not be saved"
                    /\ o.value.about = <<info.name, StoreError>>
                    /\ o.calls[fail - 1].op = "remove"
                    /\ \A k \in o.calls[fail - 1].keys : ~MapHas(o.m.store, k)
               ELSE /\ o.value = StoreError
                    /\ o.m.store = Mem.store
                    /\ o.m.projects = Mem.projects
                    /\ o.m.reverseProjectIndex = Mem.reverseProjectIndex
                    /\ o.m.projectIndices = Mem.projectIndices
                    /\ o.m.cache = Mem.cache

----------------------------------------------------------------------------
(* C14 *)

\* the numbers a failing store call can have
StoreFailInputs == 1..3

\* the store call number fail of the call with outcome o was issued and is one
\* of the operations ops
FailedIn(o, fail, ops) == Len(o.calls) >= fail /\ o.calls[fail].op \in ops

\* the promise is rejected with the store's error and no store call follows
\* the failed one
RejectedAtFailure(o, fail) ==
    /\ o.status = "rejected"
    /\ o.value = StoreError
    /\ Len(o.calls) = fail

StoreReads == {"get", "getBytesInUse"}
StoreWrites == {"set", "remove", "clear"}

----------------------------------------------------------------------------
(* C15 *)

\* the keys the store gets of the calls ask for
KeysAsked(calls) == UNION {calls[j].keys : j \in {h \in DOMAIN calls : calls[h].op = "get"}}

\* C15: when a find resolves after a store get that returned a note record,
\* the cache holds an equal record under the note's key afterwards, and the same
\* find called again asks the store for that key no more.
C15_FindCachesFetchedNotes ==
    \A query \in LookupInputs \cup AdHocInputs, cloneThrows \in BOOLEAN :
        LET o == find(Mem, query, 0, cloneThrows)
            again == find(o.m, query, 0, cloneThrows)
        IN o.status = "resolved" =>
               \A k \in KeysAsked(o.calls) :
                   (MapHas(Mem.store, k) /\ HasRelations(Mem.store[k])) =>
                       /\ MapHas(o.m.cache, k)
                       /\ o.m.cache[k] = Mem.store[k]
                       /\ k \notin KeysAsked(again.calls)

----------------------------------------------------------------------------
(* C16 *)

\* a record a caller holds: the key of its note, and whether the object is the
\* one the cache holds
Held(key, shared) == [key |-> key, shared |-> shared]

\* the data object after add: this.cache.set(key, data) (line 718) puts the
\* caller's object itself into the cache
addHeld(m, phrase, project) ==
    LET keyPair == AddKeyPair(m, phrase, project)
    IN Held(Key(keyPair[1], keyPair[2]), TRUE)

\* the record a lookup in one project returns: the cache's object on a cache
\* hit (lines 501-505); on a fetch the cache gets a deepClone and the caller
\* the fetched object (lines 518-519)
findLookupHeld(m, query) ==
    LET key == Key(query.project[1], projectIndex(m, query.phrase, PNum(query.project[1])).i)
    IN Held(key, ~IsNullish(MapGet(m.cache, key)))

\* the memory after the caller has set record.starred = !record.starred on
\* the record it holds
MutateHeld(m, held) ==
    IF held.shared /\ MapHas(m.cache, held.key) /\ "starred" \in DOMAIN m.cache[held.key]
    THEN [m EXCEPT !.cache[held.key].starred = ~@]
    ELSE m

\* C16: changing in place the data object handed to add, or the record a
\* lookup returned, leaves what a later lookup of the note returns as it was.
C16_NoAliasOfCacheEntries ==
    /\ \A phrase \in PhraseInputs, project \in 0..MaxProjectPk, data \in DataInputs :
           LET o == add(Mem, phrase, project, data, 0)
               query == Lookup(phrase, <<project>>)
           IN o.status = "resolved" =>
                  find(MutateHeld(o.m, addHeld(Mem, phrase, project)), query, 0, FALSE).value
                      = find(o.m, query, 0, FALSE).value
    /\ \A query \in {q \in LookupInputs : q.project # << >>} :
           LET o == find(Mem, query, 0, FALSE)
           IN (o.status = "resolved" /\ o.value.state = "found") =>
                  find(MutateHeld(o.m, findLookupHeld(Mem, query)), query, 0, FALSE).value
                      = find(o.m, query, 0, FALSE).value

----------------------------------------------------------------------------
(* C17 *)

\* the identifiers findProject is asked about: pks, names, the ProjectInfos of
\* the registry and null
FindProjectInputs ==
    {PNum(n) : n \in 0..(MaxProjectPk + 1)}
    \cup {PStr(s) : s \in {<< >>, <<"A">>, <<"B">>}}
    \cup {PObj(projects[n]) : n \in DOMAIN projects}
    \cup {PObj(Null)}

\* the identifier names a project of the registry
ResolvesToProject(project) ==
    CASE project.t = "number" -> project.n \in RegistryPks
      [] project.t = "string" -> MapHas(projects, project.s)
      [] project.t = "object" -> ~IsNull(project.o) /\ project.o.pk \in RegistryPks

\* C17: in every reachable state findProject returns, for every identifier, a
\* name and the ProjectInfo the registry holds under that name, and for an
\* identifier that names no project of the registry the ProjectInfo with pk 0.
C17_FindProjectNeverFails ==
    \A project \in FindProjectInputs :
        LET r == findProject(Mem, project) IN
        /\ ~IsUndefined(r[2])
        /\ MapHas(projects, r[1])
        /\ projects[r[1]] = r[2]
        /\ ~ResolvesToProject(project) => r[2].pk = 0

----------------------------------------------------------------------------
(* C18 *)

\* the projects the saveProject of C18 is called with: those of SaveInputs and
\* one whose name no project of a behaviour has
NewNameInputs ==
    SaveInputs \cup
    { [name |-> <<"B", " ">>, description |-> "[no description]", normalizer |-> "",
       relations |-> << <<SeeAlso, SeeAlso>> >>] }

\* C18: when saveProject resolves for a name the registry has, the project
\* keeps its pk and has the fields of the call; for a new name the pk is one
\* more than the greatest pk of the registry, is the pk of no project of the
\* registry and is not 0, the new project has an empty phrase index, and the
\* one store set of the call writes the registry and the empty index.
C18_SaveProjectAssignsPk ==
    \A p \in NewNameInputs :
        LET o == saveProject(Mem, p.name, p.description, p.normalizer, p.relations, 0)
            name == CleanName(p.name)
            pk == o.value.pk
        IN o.status = "resolved" =>
               /\ o.m.projects[name] =
                      [pk |-> pk, name |-> name, description |-> p.description,
                       normalizer |-> p.normalizer, relations |-> p.relations]
               /\ Len(o.calls) = 1 /\ o.calls[1].op = "set"
               /\ o.m.store["projects"] = o.m.projects
               /\ IF MapHas(projects, name)
                  THEN /\ pk = projects[name].pk
                       /\ o.calls[1].keys = {"projects"}
                  ELSE /\ \A q \in RegistryPks : pk > q
                       /\ RegistryPks # {} => pk - 1 \in RegistryPks
                       /\ pk # 0
                       /\ o.m.projectIndices[pk] = EmptyMap
                       /\ o.m.reverseProjectIndex[pk] = name
                       /\ o.calls[1].keys = {"projects", PkKey(pk)}
                       /\ o.m.store[PkKey(pk)] = EmptyMap

\* saveProject has resolved for a new name while the registry held a project:
\* the new project has pk 1 and an empty phrase index in memory and in the store
C18_SavedNewProject ==
    /\ last.op = "saveProject" /\ last.status = "resolved" /\ last.value = [pk |-> 1]
    /\ 0 \in RegistryPks
    /\ projectIndices[1] = EmptyMap
    /\ store[PkKey(1)] = EmptyMap

----------------------------------------------------------------------------
(* C19 *)

\* the phrase as add normalizes it for the project
AddNormalized(m, phrase, project) ==
    normalize(m, phrase, PObj(findProject(m, PNum(project))[2]))

\* the note keys in use in project P: those the phrase index lists and those
\* of the notes the cache or the store holds
KeysInUse(m, P) ==
    (IF MapHas(m.projectIndices, P) THEN Range(m.projectIndices[P]) ELSE {})
    \cup {n \in 0..MaxNotePk : NoteExists(m, <<P, n>>)}

\* the phrase is new to the project's phrase index
NewPhrase(m, phrase, project) ==
    LET P == findProject(m, PNum(project))[2].pk
    IN ~(MapHas(m.projectIndices, P)
            /\ MapHas(m.projectIndices[P], AddNormalized(m, phrase, project)))

\* C19: when add resolves for a phrase that is new to its project, the note
\* key it assigns is 0 when the project has no key in use and otherwise
\* greater than every key in use in the project, and a following add of a new
\* phrase with another normalized form in the same project gets a greater key.
C19_NoteKeysAreMonotonic ==
    \A project \in 0..MaxProjectPk, phrase \in PhraseInputs, later \in PhraseInputs :
        LET data == NoteRecord(FALSE, << >>, << >>)
            o == add(Mem, phrase, project, data, 0)
            o2 == add(o.m, later, project, data, 0)
        IN (o.status = "resolved" /\ NewPhrase(Mem, phrase, project)) =>
               LET keyPair == AddKeyPair(Mem, phrase, project)
                   inUse == KeysInUse(Mem, keyPair[1])
               IN /\ inUse = {} => keyPair[2] = 0
                  /\ \A n \in inUse : keyPair[2] > n
                  /\ (/\ o2.status = "resolved"
                      /\ NewPhrase(o.m, later, project)
                      /\ AddNormalized(o.m, later, project) # AddNormalized(Mem, phrase, project))
                         => AddKeyPair(o.m, later, project)[2] > keyPair[2]

----------------------------------------------------------------------------
(* C20 *)

\* C20: every add call issues one store set and no other store call; the set
\* writes the note record under the note's key, and it writes the phrase-index
\* blob of the project exactly when the normalized phrase was not in the
\* project's phrase index before the call.
C20_AddIssuesOneSet ==
    \A phrase \in PhraseInputs, project \in 0..MaxProjectPk, data \in DataInputs,
       fail \in FailInputs :
        LET o == add(Mem, phrase, project, data, fail) IN
        /\ Len(o.calls) = 1
        /\ o.calls[1].op = "set"
        /\ LET keyPair == AddKeyPair(Mem, phrase, project)
               key == Key(keyPair[1], keyPair[2])
           IN /\ key \in o.calls[1].keys
              /\ o.status = "resolved" => o.m.store[key] = data
              /\ PkKey(keyPair[1]) \in o.calls[1].keys <=> NewPhrase(Mem, phrase, project)

----------------------------------------------------------------------------
(* C21 *)

\* no store read follows a store write in the calls, and at most one is a set
WritesLast(calls) ==
    /\ \A i \in DOMAIN calls, j \in DOMAIN calls :
           (i < j /\ calls[i].op \in StoreWrites) => calls[j].op \notin StoreReads
    /\ Cardinality({j \in DOMAIN calls : calls[j].op = "set"}) <= 1

\* C21: in every call of add, deleteRelation, saveProject, setCurrentProject
\* and removeProject, whichever of its store calls fails, no store read is
\* issued after a store write and at most one store set is issued.
C21_NoReadAfterWrite ==
    \A fail \in {0} \cup StoreFailInputs :
        /\ \A phrase \in PhraseInputs, project \in 0..MaxProjectPk, data \in DataInputs :
               WritesLast(add(Mem, phrase, project, data, fail).calls)
        /\ \A phrase \in PhraseInputs, name \in DOMAIN projects,
              relation \in RelationInputs, pair \in PairInputs :
               WritesLast(deleteRelation(Mem, phrase, projects[name], relation, pair, fail).calls)
        /\ \A p \in SaveInputs :
               WritesLast(saveProject(Mem, p.name, p.description, p.normalizer,
                                      p.relations, fail).calls)
        /\ \A pk \in 0..MaxProjectPk : WritesLast(setCurrentProject(Mem, pk, fail).calls)
        /\ \A project \in ProjectIdInputs : WritesLast(removeProject(Mem, project, fail).calls)

\* removeProject has resolved after a get, the remove and the set
C21_RemovedAfterGet ==
    /\ last.op = "removeProject"
    /\ last.status = "resolved"
    /\ last.calls = <<"get", "remove", "set">>

----------------------------------------------------------------------------
(* C22 *)

\* C22: when the store invokes every callback in the end, the promise of every
\* started call is resolved or rejected in the end.
C22_EveryPromiseSettles ==
    \A id \in 1..MaxOps :
        (promise.id = id /\ promise.state = "started")
            ~> (promise.id = id /\ promise.state = "settled")

----------------------------------------------------------------------------
(* C23 *)

\* C23: when a note of the default project that another note lists under "see
\* also" is deleted, delete resolves, no note lists the deleted note's key
\* under "see also" afterwards, and a lookup of the phrase resolves to "none".
C23_DeleteUnlinksNote ==
    \A phrase \in PhraseInputs :
        LET looked == projectIndex(Mem, phrase, PNum(0))
            q == <<0, looked.i>>
        IN (/\ MapHas(projects, << >>)
            /\ looked.found
            /\ NoteExists(Mem, q)
            /\ \E X \in NoteKeys \ {q} : Lists(store, X, SeeAlso, q)) =>
               LET o == delete(Mem, phrase, projects[<< >>]) IN
               /\ o.status = "resolved"
               /\ \A X \in NoteKeys :
                      ~Lists(o.m.cache, X, SeeAlso, q) /\ ~Lists(o.m.store, X, SeeAlso, q)
               /\ find(o.m, Lookup(phrase, <<0>>), 0, FALSE).value.state = "none"

----------------------------------------------------------------------------
(* C24 *)

\* C24: getIndex on an empty store resolves with a registry that holds exactly
\* the default project, which is then in the store; and after calls that all
\* resolved, getIndex resolves with an index in which every project of the
\* registry, the default project included, has a phrase index.
C24_GetIndexGivesEveryProjectAnIndex ==
    /\ LET o == getIndex([Mem EXCEPT !.store = EmptyMap], 0) IN
       /\ o.status = "resolved"
       /\ o.m.projects = (<< >> :> makeDefaultProject)
       /\ MapHas(o.m.store, "projects")
       /\ o.m.store["projects"] = (<< >> :> makeDefaultProject)
    /\ allResolved =>
           LET o == getIndex(Mem, 0) IN
           /\ o.status = "resolved"
           /\ MapHas(o.m.projects, << >>)
           /\ \A n \in DOMAIN o.m.projects :
                  MapHas(o.m.projectIndices, o.m.projects[n].pk)

----------------------------------------------------------------------------
(* C25 *)

\* an ad hoc query that carries no field besides type
EmptyAdHoc == AdHoc(FALSE, << >>, "none", FALSE, << >>, "none", << >>, << >>)

\* C25: find of an ad hoc query without any field besides type resolves to
\* "none", takes no note key out of any phrase index and issues no store get.
C25_EmptyAdHocShortCircuits ==
    LET o == find(Mem, EmptyAdHoc, 0, FALSE) IN
    /\ o.status = "resolved"
    /\ o.value.state = "none"
    /\ AdHocKeys(Mem, EmptyAdHoc, allProjects(Mem)) = << >>
    /\ \A j \in DOMAIN o.calls : o.calls[j].op # "get"

----------------------------------------------------------------------------
(* C26 *)

\* the ad hoc queries that specify starred: without a phrase, with a phrase to
\* be found as a substring or exactly, with and without tag requirements
StarredInputs ==
    {AdHoc(hasPhrase, <<"c", "a">>, strictness, FALSE, << >>, starred, tagRequired, tagForbidden) :
        hasPhrase \in BOOLEAN, strictness \in {"exact", "substring"},
        starred \in {"true", "false"},
        tagRequired \in {<< >>, <<"animal">>}, tagForbidden \in {<< >>, <<"animal">>}}

\* the candidates of an ad hoc query over every project: the notes of the keys
\* that the cache holds, then those of the other keys that the store holds
CandidatesOf(m, keys) ==
    AdHocCandidates(m,
        SelectSeq(keys, LAMBDA k : TruthyObject(MapGet(m.cache, Key(k[1], k[2])))),
        SelectSeq(keys, LAMBDA k : /\ ~TruthyObject(MapGet(m.cache, Key(k[1], k[2])))
                                   /\ MapHas(m.store, Key(k[1], k[2]))))

\* note is what the query asks for: its starred flag is the query's, it has
\* every required tag and no forbidden tag
Wanted(note, query) ==
    LET noteStarred == IF "starred" \in DOMAIN note THEN note.starred ELSE FALSE
        noteTags == IF "tags" \in DOMAIN note THEN Range(note.tags) ELSE {}
    IN /\ noteStarred = (query.starred = "true")
       /\ Range(query.tagRequired) \subseteq noteTags
       /\ Range(query.tagForbidden) \cap noteTags = {}

\* C26: an ad hoc query that specifies starred resolves with exactly the
\* candidates whose starred flag is the query's, that have every tag of
\* tagRequired and none of tagForbidden: "found" for one, "ambiguous" for
\* several, "none" for none.
C26_StarredFilter ==
    \A query \in StarredInputs :
        LET o == find(Mem, query, 0, FALSE)
            candidates == CandidatesOf(Mem, AdHocKeys(Mem, query, allProjects(Mem)))
            wanted == SelectSeq(candidates, LAMBDA c : Wanted(c[2], query))
        IN /\ o.status = "resolved"
           /\ o.value.matches = wanted
           /\ o.value.state = IF Len(wanted) = 0 THEN "none"
                              ELSE IF Len(wanted) = 1 THEN "found" ELSE "ambiguous"

\* a find has resolved to "found" where the index holds a starred note with the
\* tag "animal" and a note that is not starred, and the queries for the starred
\* notes with the tag and for the notes without it each find one of the two
C26_FoundTheStarredOne ==
    /\ last.op = "find"
    /\ last.status = "resolved"
    /\ last.value.state = "found"
    /\ LET candidates == CandidatesOf(Mem, AdHocKeys(Mem, EmptyAdHoc, allProjects(Mem)))
           starredOnes == find(Mem, AdHoc(FALSE, << >>, "none", FALSE, << >>, "true",
                                          <<"animal">>, << >>), 0, FALSE)
           others == find(Mem, AdHoc(FALSE, << >>, "none", FALSE, << >>, "false",
                                     << >>, <<"animal">>), 0, FALSE)
       IN /\ Len(candidates) = 2
          /\ starredOnes.status = "resolved"
          /\ starredOnes.value.state = "found"
          /\ others.status = "resolved"
          /\ others.value.state = "found"
          /\ starredOnes.value.matches # others.value.matches

----------------------------------------------------------------------------
(* C27 *)

\* C27: no call on the index other than clear takes a tag out of the tag set
\* of the index, and an add to a project of the registry leaves every tag of
\* its data in the tag set, whether its store set fails or not.
C27_TagsAppendOnly ==
    /\ [][last'.op \notin {"clear", "getIndex"} => tags \subseteq tags']_vars
    /\ [](\A phrase \in PhraseInputs, project \in 0..MaxProjectPk, data \in DataInputs,
             fail \in FailInputs :
              ~normalizeThrows(PObj(findProject(Mem, PNum(project))[2])) =>
                  Range(data.tags) \subseteq add(Mem, phrase, project, data, fail).m.tags)

\* the tag of an added note is in the tag set after a later call that is
\* neither an add nor a clear
C27_TagKeptByLaterCall ==
    /\ "animal" \in tags
    /\ last.op \in {"removeProject", "deleteRelation", "saveProject", "find"}
    /\ last.status = "resolved"

----------------------------------------------------------------------------
(* C28 *)

\* memfree resolves to 5242880 - bytes and leaves the index and the store alone
\* when the store reports bytes, and is rejected with the store's error when
\* the call fails
MemFreeSubtracts(bytes) ==
    /\ LET o == memfree(Mem, bytes, 0) IN
       /\ o.status = "resolved"
       /\ o.value = [free |-> 5242880 - bytes]
       /\ o.value.free \in 0..5242880
       /\ o.m = Mem
    /\ LET o == memfree(Mem, bytes, 1) IN
       /\ o.status = "rejected"
       /\ o.value = StoreError
       /\ o.m = Mem

\* C28: memfree resolves to 5242880 minus the byte count the store reports,
\* for every count from 0 to 5242880, and is rejected with the store's error
\* when getBytesInUse fails. memfree reads nothing of the index: the whole range
\* of counts is gone through in the first state, the counts of BytesInputs in
\* every state.
C28_MemFreeIsQuotaMinusBytes ==
    /\ \A bytes \in BytesInputs : MemFreeSubtracts(bytes)
    /\ nops = 0 => \A bytes \in 0..5242880 : MemFreeSubtracts(bytes)

\* memfree has resolved to 0 on a full store after a note was added
C28_NothingFree ==
    /\ last.op = "memfree"
    /\ last.status = "resolved"
    /\ last.value = [free |-> 0]
    /\ \E q \in NoteKeys : MapHas(store, Key(q[1], q[2]))

----------------------------------------------------------------------------
(* C29 *)

\* the characters of the phrases normalize is tried on: letters in both cases,
\* with and without diacritics, the sharp s, the space and a removed character
NormalizeChars == {"a", "T", "Ü", "ü", "ß", Space, "!"}

\* every phrase of at most MaxPhraseLen of these characters
NormalizeInputs == UNION {[1..n -> NormalizeChars] : n \in 0..MaxPhraseLen}

\* C29: normalizing a normalized phrase again changes nothing, for every
\* phrase and every project of the registry.
C29_NormalizeIdempotent ==
    \A name \in DOMAIN projects, phrase \in NormalizeInputs :
        LET once == normalize(Mem, phrase, PObj(projects[name]))
        IN normalize(Mem, once, PObj(projects[name])) = once

----------------------------------------------------------------------------
(* C30 *)

\* the projects of the registry whose normalizer is the German one
GermanProjects == {n \in DOMAIN projects : projects[n].normalizer = "German"}

\* after calls that all resolved, an add of "Über" to the project p that
\* resolves leaves the note in the phrase index of p, in memory and in the
\* store, under key, and a lookup of "über" in p then resolves to "found" with
\* that note
StoredUnder(p, data, key) ==
    LET o == add(Mem, <<"Ü", "b", "e", "r">>, p, data, 0) IN
    (allResolved /\ MapHas(projectIndices, p) /\ o.status = "resolved") =>
        /\ MapHas(o.m.projectIndices[p], key)
        /\ MapHas(o.m.store[PkKey(p)], key)
        /\ o.m.store[PkKey(p)][key] = o.m.projectIndices[p][key]
        /\ MapGet(o.m.store, Key(p, o.m.projectIndices[p][key])) = data
        /\ LET f == find(o.m, Lookup(<<"ü", "b", "e", "r">>, <<p>>), 0, FALSE) IN
           /\ f.status = "resolved"
           /\ f.value.state = "found"
           /\ f.value.matches = << <<p, data>> >>

\* C30 as stated: in a project with the German normalizer, after calls that
\* all resolved, "Über" is stored under the key "uber" and the lookup of "über"
\* in the project returns the note.
C30_UeberStoredAsUber ==
    \A n \in GermanProjects, data \in DataInputs :
        StoredUnder(projects[n].pk, data, <<"u", "b", "e", "r">>)

\* C30: in a project with the German normalizer, after calls that all
\* resolved, "Über" is stored under the key "ueber" and the lookup of "über" in
\* the project returns the note.
C30_UeberStoredAsUeber ==
    \A n \in GermanProjects, data \in DataInputs :
        StoredUnder(projects[n].pk, data, <<"u", "e", "b", "e", "r">>)

\* "Über" has been added to a project with the German normalizer, the note is
\* the only one of the index, and a find has resolved to "found"
C30_FoundUeber ==
    /\ last.op = "find"
    /\ last.status = "resolved"
    /\ last.value.state = "found"
    /\ \E n \in GermanProjects :
           /\ MapHas(projectIndices, projects[n].pk)
           /\ DOMAIN projectIndices[projects[n].pk] = {<<"u", "e", "b", "e", "r">>}
           /\ MapHas(store, Key(projects[n].pk, 0))
           /\ \A pk \in DOMAIN projectIndices \ {projects[n].pk} : projectIndices[pk] = EmptyMap

----------------------------------------------------------------------------
(* C31 *)

\* C31: currentProject is the primary key of a project of the registry.
C31_CurrentProjectIsKnown ==
    \E n \in DOMAIN projects : projects[n].pk = currentProject

----------------------------------------------------------------------------
(* C32 *)

\* C32: after calls that all resolved, getIndex on the store resolves with an
\* index whose registry, currentProject, tag set and phrase indices are those
\* of the index in memory.
C32_PersistenceRoundTrip ==
    allResolved =>
        LET o == getIndex(Mem, 0) IN
        /\ o.status = "resolved"
        /\ o.m.projects = projects
        /\ o.m.currentProject = currentProject
        /\ o.m.tags = tags
        /\ o.m.projectIndices = projectIndices

----------------------------------------------------------------------------
(* C33 *)

\* C33: an add that is rejected because its store set failed leaves the phrase
\* indices, the cache and the tag set as they were, and when the phrase was new
\* to the project a lookup of it in the project then resolves to "none".
C33_FailedAddChangesNothing ==
    \A phrase \in PhraseInputs, project \in 0..MaxProjectPk, data \in DataInputs :
        LET o == add(Mem, phrase, project, data, 1) IN
        (o.status = "rejected" /\ o.value = StoreError) =>
            /\ o.m.projectIndices = projectIndices
            /\ o.m.cache = cache
            /\ o.m.tags = tags
            /\ o.m.store = store
            /\ NewPhrase(Mem, phrase, project) =>
                   LET f == find(o.m, Lookup(phrase, <<project>>), 0, FALSE) IN
                   f.status = "resolved" /\ f.value.state = "none"

----------------------------------------------------------------------------
(* C34 *)

\* the composite keys of the notes of the projects of the registry
KeysOfNotes ==
    UNION {{Key(projects[n].pk, i) : i \in Range(projectIndices[projects[n].pk])} :
              n \in {x \in DOMAIN projects : MapHas(projectIndices, projects[x].pk)}}

\* C34: when no call is in flight and no store call has failed, every key of
\* the cache is the composite key of a note of a project of the registry, and
\* the store holds an equal record under it.
C34_CacheCoherent ==
    (promise.state # "started" /\ ~storeFailed) =>
        \A k \in DOMAIN cache :
            /\ k \in KeysOfNotes
            /\ MapHas(store, k)
            /\ cache[k] = store[k]

----------------------------------------------------------------------------
(* C35 *)

\* C35: when clear resolves, the index is the one getIndex builds on an empty
\* store (registry, reverseProjectIndex, currentProject, phrase indices, cache
\* and tag set), and setCurrentProject(0) then resolves.
C35_ClearIsFreshIndex ==
    LET o == clear(Mem, 0)
        fresh == getIndex([Mem EXCEPT !.store = EmptyMap], 0)
    IN /\ o.status = "resolved"
       /\ fresh.status = "resolved"
       /\ o.m.projects = fresh.m.projects
       /\ o.m.projectIndices = fresh.m.projectIndices
       /\ o.m.cache = fresh.m.cache
       /\ o.m.tags = fresh.m.tags
       /\ o.m.store = fresh.m.store
       /\ o.m.reverseProjectIndex = fresh.m.reverseProjectIndex
       /\ o.m.currentProject = fresh.m.currentProject
       /\ setCurrentProject(o.m, 0, 0).status = "resolved"

\* the "see also" entries of the stored notes outside project P that name a
\* note project P holds in the store: <<holder, target>>
EntriesInto(c, P) ==
    {e \in NoteKeys \X NoteKeys :
        /\ e[1][1] # P /\ e[2][1] = P
        /\ HoldsNote(c, e[2])
        /\ Lists(c, e[1], SeeAlso, e[2])}

\* C36: a composite key never comes to identify another note: when a project
\* is removed, a project is saved and a note is added to it, no "see also"
\* entry a surviving note held for a note of the removed project is an entry
\* for the note added afterwards.
C36_KeysAreNeverReassigned ==
    \A P \in 1..MaxProjectPk, p \in NewNameInputs, phrase \in PhraseInputs :
        LET o1 == removeProject(Mem, PNum(P), 0) IN
        o1.status = "resolved" =>
            LET o2 == saveProject(o1.m, p.name, p.description, p.normalizer,
                                  p.relations, 0) IN
            o2.status = "resolved" =>
                LET o3 == add(o2.m, phrase, o2.value.pk, NoteRecord(FALSE, << >>, << >>), 0) IN
                o3.status = "resolved" =>
                    \A e \in EntriesInto(store, P) :
                        ~ /\ Lists(o3.m.store, e[1], SeeAlso, e[2])
                          /\ HoldsNote(o3.m.store, e[2])

\* the pairs of add calls for phrases with distinct keys in the same project,
\* the second started while the first waited for its store set
AddsTogether ==
    {ij \in (DOMAIN inFlight) \X (DOMAIN inFlight) :
        /\ inFlight[ij[1]].op = "add" /\ inFlight[ij[2]].op = "add"
        /\ inFlight[ij[1]].status # "rejected" /\ inFlight[ij[2]].status # "rejected"
        /\ ij[1] \in inFlight[ij[2]].during
        /\ inFlight[ij[1]].pk = inFlight[ij[2]].pk
        /\ inFlight[ij[1]].ctx.key # inFlight[ij[2]].ctx.key}

\* no call but add calls has been started together with others
OnlyAdds == \A i \in DOMAIN inFlight : inFlight[i].op = "add"

\* C37: two add calls for phrases with distinct keys in one project, started
\* before the store set of either completes, get distinct note keys; once both
\* sets are completed the project's stored phrase index holds both keys and is
\* the phrase index in memory.
C37_AddsTogetherGetDistinctKeys ==
    OnlyAdds =>
        \A ij \in AddsTogether :
            LET a == inFlight[ij[1]]
                b == inFlight[ij[2]]
            IN /\ a.ctx.keyPair # b.ctx.keyPair
               /\ (a.stage = "done" /\ b.stage = "done") =>
                      /\ MapHas(store, PkKey(a.pk))
                      /\ MapHas(projectIndices, a.pk)
                      /\ store[PkKey(a.pk)] = projectIndices[a.pk]
                      /\ {a.ctx.key, b.ctx.key} \subseteq DOMAIN store[PkKey(a.pk)]

\* C37 where the project has a phrase index in memory
C37_WithIndexInMemory ==
    OnlyAdds =>
        \A ij \in AddsTogether :
            LET a == inFlight[ij[1]]
                b == inFlight[ij[2]]
            IN MapHas(projectIndices, a.pk) =>
               /\ a.ctx.keyPair # b.ctx.keyPair
               /\ (a.stage = "done" /\ b.stage = "done") =>
                      /\ MapHas(store, PkKey(a.pk))
                      /\ store[PkKey(a.pk)] = projectIndices[a.pk]
                      /\ {a.ctx.key, b.ctx.key} \subseteq DOMAIN store[PkKey(a.pk)]

\* the pairs <<r, a>> of a removeProject that resolved and a call with the
\* operation op on the same project that was started while the removeProject
\* waited for the store, when no call waits for the store any more
RemovedWith(op) ==
    {ra \in (DOMAIN inFlight) \X (DOMAIN inFlight) :
        /\ storeQueue = << >>
        /\ inFlight[ra[1]].op = "removeProject" /\ inFlight[ra[1]].status = "resolved"
        /\ inFlight[ra[2]].op = op /\ inFlight[ra[2]].stage = "done"
        /\ ra[1] \in inFlight[ra[2]].during
        /\ inFlight[ra[2]].pk = inFlight[ra[1]].pk}

\* neither the cache nor the store holds a note of project P, and no lookup in
\* P resolves with a note
NoNoteOf(P) ==
    /\ \A n \in 0..MaxNotePk :
          ~HoldsNote(cache, <<P, n>>) /\ ~HoldsNote(store, <<P, n>>)
    /\ \A phrase \in QueryPhraseInputs :
          LET f == find(Mem, Lookup(phrase, <<P>>), 0, FALSE) IN
          f.status = "resolved" =>
              \A j \in DOMAIN f.value.matches : ~HasRelations(f.value.matches[j][2])

\* C38: when a find or an add on project P is started while removeProject(P)
\* waits for one of its store calls, then once both are completed neither the
\* cache nor the store holds a note of P and no lookup returns a note of P.
C38_NothingOfRemovedProjectIsLeft ==
    \A ra \in RemovedWith("add") \cup RemovedWith("find") : NoNoteOf(inFlight[ra[1]].pk)

\* the note is not the current note of the App
NotCurrent(note) ==
    IF IsUndefined(currentNote(AppState)) THEN TRUE
    ELSE ~sameNote(note, currentNote(AppState))

\* C39: goto(note) for a note that is not the current note leaves the visits up
\* to and including the former historyIndex, followed by one new visit for the
\* note; historyIndex is the index of that last visit and the tab is 0.
C39_GotoClearsTheFuture ==
    \A note \in NoteInputs :
        NotCurrent(note) =>
            LET b == goto(AppState, note)
                kept == {j \in DOMAIN history : j <= historyIndex + 1}
            IN /\ Len(b.history) = Cardinality(kept) + 1
               /\ \A j \in kept : b.history[j] = history[j]
               /\ b.history[Len(b.history)].current.key = note.key
               /\ b.history[Len(b.history)].saved = b.history[Len(b.history)].current
               /\ b.historyIndex = Len(b.history) - 1
               /\ b.tab = 0

\* goto is called with a note that is not the current one while visits follow
\* the current one, and drops them
C39_FutureCleared ==
    \E note \in NoteInputs :
        /\ NotCurrent(note)
        /\ historyIndex >= 0
        /\ historyIndex + 1 < Len(history)
        /\ Len(goto(AppState, note).history) = historyIndex + 2
        /\ goto(AppState, note).historyIndex = historyIndex + 1

\* C40: historyIndex is -1 when the history is empty, else it is the index of
\* a visit of the history, so that recentHistory() is defined.
C40_HistoryIndexInRange ==
    IF history = << >> THEN historyIndex = -1
    ELSE /\ 0 <= historyIndex /\ historyIndex < Len(history)
         /\ ~IsUndefined(recentHistory(AppState))

====
